---- MODULE Spec2Model ----
(***************************************************************************)
(* A model of the coScene collection agent (coscout).                      *)
(*                                                                         *)
(* Part I   - the record-cache state machine (Collector.handle_record),    *)
(*            the sweep (Collector.run, RecordCache.find_all), and the     *)
(*            producers of record caches (DefaultMod.handle_error_json,    *)
(*            TaskHandler._handle_upload_task).                            *)
(* Part II  - the scheduler tick and the auth/register iteration           *)
(*            (run_forever, ApiClient.register_and_authorize_device).      *)
(*                                                                         *)
(* Part III - the resumable multipart uploader (S3MultipartUploader).       *)
(* Part IV  - the remote-config cache (RemoteConfig.read_config).           *)
(* Part V   - the event-code limiter (EventCodeManager).                    *)
(* Part VI  - the file index (FileStateHandler).                            *)
(* Part VII - the record cache and the file info as values                 *)
(*            (RecordCache.key, RecordCache.delete_cache_dir,              *)
(*            FileInfo.complete).                                          *)
(* Part VIII - the mod's upload requests (DefaultMod.run).                 *)
(* Part IX  - the keys of units of work (upload requests and tasks).       *)
(* Part X   - the limiter inside Collector.handle_record.                   *)
(* Part XI  - the sweep of the file index and the static diagnosis.        *)
(* Part XII - the upload limit of a diagnosis rule                         *)
(*            (should_trigger_action).                                     *)
(* Part XIII - the network-usage meter and the heartbeat.                  *)
(* Part XIV - what the uploader feeds the meter.                           *)
(*                                                                         *)
(* Time is counted in whole hours in Part I, in half days in Part II and   *)
(* in milliseconds in Part VII.                                            *)
(***************************************************************************)
EXTENDS Integers, Sequences, FiniteSets, TLC

\* ------------------------------------------------------------- bounds
NKeys == 2
MaxFiles == 2
MaxMoments == 1
MaxCreated == 2
MaxNow == 1
MaxDay == 2
MaxRegistrations == 2
Day == 2                 \* 24 * 60 * 60 seconds, in half days
PartSize == 2            \* part_size_bytes, in units of the model
MaxSize == 5             \* the largest file, in the same units
MaxInterruptions == 2
MaxVersion == 2          \* config versions 1..MaxVersion
MaxValue == 2            \* config values 0..MaxValue, 0 the empty map
ResetInterval == 2       \* reset_interval_in_secs, in units of the limiter's clock
MaxClock == 7
MaxHits == 3
NPaths == 3              \* paths the file index may hold
MaxTime == 2             \* start and end times 0..MaxTime
NUnits == 2              \* units of work: upload requests and tasks
MaxFileSize == 2         \* file sizes 1..MaxFileSize
MaxRuns == 2             \* pipeline runs counted per child and size
MaxChildren == 1         \* children of the watched directory at a time

Keys == 1..NKeys

VARIABLES
    disk,      \* records root: key -> record dir (state.json + payload files)
    remote,    \* platform side: key -> what has been done for that record cache
    last,      \* the latest handle_record call of the sweep in progress, or the
               \* latest direct call: its input, the steps it started, its outcome
    sweep,     \* position of Collector.run
    conf,      \* CollectorConfig
    now,       \* wall clock, in hours
    req,       \* mod state dir: key -> state of the upload-request JSON
    api,       \* ApiClientState, as persisted
    install,   \* InstallState, as persisted
    tick,      \* position of run_forever, and what its latest steps did
    today,     \* wall clock, in half days
    file,      \* the file S3MultipartUploader uploads
    manifest,  \* its multipart info file, .{basename}_multipart.json
    s3,        \* the object store, as far as this file is concerned
    up,        \* position and locals of upload()
    interruptions, \* connection errors and process stops so far
    fed,       \* what upload() fed the meter's upload_bytes for the parts it sent
    cache,     \* the cache file of one RemoteConfig
    rd,        \* the latest read_config call
    codeFile,  \* the code-limit state file
    mgr,       \* the EventCodeManager object in use
    clock,     \* wall clock, in units of the limiter
    hits,      \* code -> hit(code) calls since the state file was last reset
    call,      \* the latest hit or is_over_limit call
    state,     \* FileStateHandler.state: path -> file state
    got,       \* the latest get_files call
    rcache,    \* a RecordCache object
    tree,      \* its cache dir and the source paths, as far as they exist
    wall,      \* time.time(), in milliseconds
    act,       \* the latest RecordCache operation
    finfo,     \* a FileInfo object
    bytes,     \* the content of the file it names
    hashed,    \* the latest complete() call
    error_json, \* an upload request of the mod's state dir
    modclock,  \* wall clock of the mod, in seconds
    conv,      \* what the mod has made of the request
    unit,      \* unit of work -> what has been made of it
    recdirs,   \* the record dirs, by key
    msclock,   \* time.time(), in milliseconds
    made,      \* code -> remote records created since the limiter's last reset
    fsys,      \* the watched directory: child -> the file or bag directory
    findex,    \* FileStateHandler.state with size and processed: child -> entry
    fsaved,    \* the index as persisted
    runs,      \* child -> size -> the times the rule pipeline ran on it
    swept,     \* child -> what the sweeps made of a failed extraction
    todo,      \* the children the current mod run has still to diagnose
    fresh,     \* update_dir returned and nothing changed since
    trig,      \* the latest should_trigger_action call
    meter,     \* request_hook.network_usage
    beat,      \* the sweep thread at the end of Collector.run
    worker,    \* a background thread that feeds the meter
    sums       \* what the meter was fed and what the heartbeats reported

collectorVars == <<disk, remote, last, sweep, conf, now, req>>
authVars == <<api, install, tick, today>>
uploaderVars == <<file, manifest, s3, up, interruptions, fed>>
configVars == <<cache, rd>>
codeVars == <<codeFile, mgr, clock, hits, call>>
indexVars == <<state, got>>
modelVars == <<rcache, tree, wall, act, finfo, bytes, hashed>>
modVars == <<error_json, modclock, conv>>
keyVars == <<unit, recdirs, msclock>>
limitVars == <<made>>
diagVars == <<fsys, findex, fsaved, runs, swept, todo, fresh>>
triggerVars == <<trig>>
meterVars == <<meter, beat, worker, sums>>
extraVars == <<keyVars, limitVars, diagVars, triggerVars, meterVars>>
offCollector ==
    <<authVars, uploaderVars, configVars, codeVars, indexVars, modelVars, modVars,
      extraVars>>
offAuth ==
    <<collectorVars, uploaderVars, configVars, codeVars, indexVars, modelVars, modVars,
      extraVars>>
offUploader ==
    <<collectorVars, authVars, configVars, codeVars, indexVars, modelVars, modVars,
      extraVars>>
offConfig ==
    <<collectorVars, authVars, uploaderVars, codeVars, indexVars, modelVars, modVars,
      extraVars>>
offCodes ==
    <<collectorVars, authVars, uploaderVars, configVars, indexVars, modelVars, modVars,
      extraVars>>
offIndex ==
    <<collectorVars, authVars, uploaderVars, configVars, codeVars, modelVars, modVars,
      extraVars>>
offModels ==
    <<collectorVars, authVars, uploaderVars, configVars, codeVars, indexVars, modVars,
      extraVars>>
\* What the mod leaves alone: it works on the requests and on the file index.
offMod ==
    <<collectorVars, authVars, uploaderVars, configVars, codeVars, modelVars,
      extraVars>>
vars ==
    <<collectorVars, authVars, uploaderVars, configVars, codeVars, indexVars,
      modelVars, modVars, extraVars>>

Range(s) == {s[i] : i \in 1..Len(s)}
Front(s) == SubSeq(s, 1, Len(s) - 1)

\* ------------------------------------------------------ RecordCache
\* A record directory.  st is the condition of .cos/state.json:
\*   "none"        the directory does not exist
\*   "valid"       parses and validates as a RecordCache
\*   "invalid"     parses as JSON but is no RecordCache (ValidationError)
\*   "unparseable" is not JSON (JSONDecodeError), e.g. truncated
\* name: record.name is set; code: event_code non-empty; task: task.name
\* non-empty; img: file_infos holds an image; mom: number of moments;
\* files: payload files still to upload; ts: timestamp, in hours.
NoDir ==
    [st |-> "none", name |-> FALSE, uploaded |-> FALSE, skipped |-> FALSE,
     code |-> FALSE, task |-> FALSE, img |-> FALSE, mom |-> 0, files |-> 0,
     ts |-> 0]

RecordCache(code, task, img, mom, files, ts) ==
    [NoDir EXCEPT !.st = "valid", !.code = code, !.task = task, !.img = img,
                  !.mom = mom, !.files = files, !.ts = ts]

Corrupt(kind) == [NoDir EXCEPT !.st = kind]

\* What the platform and the limiter have seen of one record cache: the
\* remote records created for it, the kinds of completed calls in the order
\* they first happened, the state of its task, and whether the limiter
\* refused it ("tried": the skip did not complete, "done": it did).
NoRemote == [created |-> 0, hist |-> <<>>, task |-> "NONE", limit |-> "none"]

\* The phase a persisted state is in (S0 Fresh, S1 Skipped, S2 Created, S3 Uploaded).
Phase(rc) ==
    IF rc.skipped THEN "S1"
    ELSE IF rc.uploaded THEN "S3"
    ELSE IF rc.name THEN "S2"
    ELSE "S0"

\* ------------------------------------------------- failure injection
\* env describes what the environment does during one handler call:
\*   over     what is_over_limit answers
\*   failAt   the step (counted from 1) that does not complete; 0: none
\*   kind     how it fails: "error" an exception other than Unauthorized
\*            (or the process stopping before the step), "unauth"
\*            Unauthorized, "torn" the process stopping inside save_state
\*            after the state file was opened for writing (truncated)
\*   cos      the payload uploads that fail with a CosException
\*   flagFail the finish.flag upload fails with a CosException
Kinds == {"error", "unauth", "torn"}

PlatformOps ==
    {"create_record", "generate_thumbnail_url", "create_event", "create_task",
     "generate_security_token", "update_record", "put_task_tags",
     "update_task_state"}

UploadOps ==
    {"upload_thumbnail", "upload_file", "upload_file_failed",
     "upload_finish_flag", "upload_finish_flag_failed"}

\* Assignments to the in-memory RecordCache: steps that cannot fail.
Assignments == {"set_record", "set_skipped", "set_uploaded"}

\* delete_cache_dir's condition.
DeleteDue(delay, t, ts) == delay >= 0 /\ t - ts > delay

\* ------------------------------------------------------- Collector
\* Each operator below gives the steps its code takes, in order, when none
\* of them fails; Exec cuts the sequence at the step that fails.

DeleteCacheDir(rc, delay, t) ==
    IF DeleteDue(delay, t, rc.ts) THEN <<"delete_cache_dir">> ELSE <<>>

UploadRecordThumbnail(rc) ==
    IF rc.img THEN <<"generate_thumbnail_url", "upload_thumbnail">> ELSE <<>>

RECURSIVE CreateMoments(_)
CreateMoments(n) ==
    IF n = 0 THEN <<>>
    ELSE <<"create_event", "create_task">> \o CreateMoments(n - 1)

\* _create_record_and_event: the record is returned, and assigned to
\* rec_cache.record, only after the thumbnail, the events and the tasks.
CreateRecordAndEvent(rc) ==
    <<"create_record">> \o UploadRecordThumbnail(rc) \o CreateMoments(rc.mom)

RECURSIVE UploadLoop(_, _, _)
UploadLoop(i, n, env) ==
    IF i > n THEN <<>>
    ELSE <<IF i \in env.cos THEN "upload_file_failed" ELSE "upload_file">>
         \o UploadLoop(i + 1, n, env)

\* resumable_upload_files on the payload, ascending size.
ResumableUploadFiles(rc, env) ==
    <<"generate_security_token">> \o UploadLoop(1, rc.files, env)

AllCompleted(rc, env) == env.cos \cap (1..rc.files) = {}

\* _upload_finish_flag_file.
UploadFinishFlagFile(env) ==
    <<"generate_security_token",
      IF env.flagFail THEN "upload_finish_flag_failed" ELSE "upload_finish_flag">>

UpdateTask(rc) ==
    IF rc.task THEN <<"put_task_tags", "update_task_state">> ELSE <<>>

FinishTaskFirst(rc, env, cf, t) ==
    IF env.flagFail THEN UploadFinishFlagFile(env)
    ELSE UploadFinishFlagFile(env) \o UpdateTask(rc) \o <<"update_record">>
         \o <<"set_uploaded", "save_state">>
         \o (IF cf.delete_after_upload THEN DeleteCacheDir(rc, 0, t) ELSE <<>>)

\* handle_record lines 196-216.
Finish(rc, env, cf, t) ==
    IF env.flagFail THEN UploadFinishFlagFile(env)
    ELSE UploadFinishFlagFile(env) \o <<"update_record">> \o UpdateTask(rc)
         \o <<"set_uploaded", "save_state">>
         \o (IF cf.delete_after_upload THEN DeleteCacheDir(rc, 0, t) ELSE <<>>)

UploadBranchFinishesAnyway(rc, env, cf, t) ==
    IF rc.uploaded THEN <<>>
    ELSE ResumableUploadFiles(rc, env) \o Finish(rc, env, cf, t)

\* handle_record lines 186-216.
UploadBranch(rc, env, cf, t) ==
    IF rc.uploaded THEN <<>>
    ELSE ResumableUploadFiles(rc, env)
         \o (IF AllCompleted(rc, env) THEN Finish(rc, env, cf, t) ELSE <<>>)

\* handle_record lines 168-183.
CreateBranch(rc) ==
    IF rc.name THEN <<>>
    ELSE CreateRecordAndEvent(rc) \o <<"set_record", "save_state">>
         \o (IF rc.code THEN <<"hit">> ELSE <<>>)

SkipBranchUnmarked(rc, cf, t) ==
    (IF rc.task THEN <<"update_task_state">> ELSE <<>>)
    \o <<"save_state">>
    \o DeleteCacheDir(rc, cf.delete_after_interval_in_hours, t)

\* handle_record lines 155-164.
SkipBranch(rc, cf, t) ==
    (IF rc.task THEN <<"update_task_state">> ELSE <<>>)
    \o <<"set_skipped", "save_state">>
    \o DeleteCacheDir(rc, cf.delete_after_interval_in_hours, t)

Branch(rc, env) ==
    IF rc.skipped THEN "skipped"
    ELSE IF ~rc.name /\ rc.code /\ env.over THEN "limit"
    ELSE "main"

HandleRecordSkippedToo(rc, env, cf, t) ==
    IF Branch(rc, env) = "limit" THEN SkipBranch(rc, cf, t)
    ELSE CreateBranch(rc) \o UploadBranch(rc, env, cf, t)

HandleRecord(rc, env, cf, t) ==
    CASE Branch(rc, env) = "skipped" -> <<>>
      [] Branch(rc, env) = "limit"   -> SkipBranch(rc, cf, t)
      [] OTHER -> CreateBranch(rc) \o UploadBranch(rc, env, cf, t)

\* ------------------------------------------------------- BaseState
\* The effect of one completed step on the in-memory RecordCache (mem) and
\* on the record dir (dsk).  save_state writes the in-memory state.
Step(c, op) ==
    CASE op = "set_record"       -> [c EXCEPT !.mem.name = TRUE]
      [] op = "set_skipped"      -> [c EXCEPT !.mem.skipped = TRUE]
      [] op = "set_uploaded"     -> [c EXCEPT !.mem.uploaded = TRUE]
      [] op = "save_state"       -> [c EXCEPT !.dsk = c.mem]
      [] op = "upload_file"      -> [c EXCEPT !.mem.files = @ - 1, !.dsk.files = @ - 1]
      [] op = "delete_cache_dir" -> [c EXCEPT !.dsk = NoDir]
      [] OTHER -> c

RECURSIVE Steps(_, _)
Steps(c, ops) == IF ops = <<>> THEN c ELSE Steps(Step(c, Head(ops)), Tail(ops))

\* The steps the handler started (the last one is the one that failed).
Started(plan, env) ==
    IF env.failAt = 0 THEN plan ELSE SubSeq(plan, 1, env.failAt)

\* The steps that completed.
Completed(plan, env) ==
    IF env.failAt = 0 THEN plan ELSE SubSeq(plan, 1, env.failAt - 1)

\* save_state opens the state file with "w" (truncating it) and then dumps:
\* a process that stops in between leaves a file that is not JSON.
Torn(c, env) ==
    IF env.failAt > 0 /\ env.kind = "torn"
    THEN [c EXCEPT !.dsk = Corrupt("unparseable")] ELSE c

\* The outcome of a handler run: the final in-memory and on-disk states, the
\* steps started, and the exception that ended it ("none": it returned).
Exec(rc, plan, env) ==
    LET c == Torn(Steps([mem |-> rc, dsk |-> rc], Completed(plan, env)), env)
    IN  [mem |-> c.mem, dsk |-> c.dsk, ops |-> Started(plan, env),
         done |-> Completed(plan, env),
         exc |-> IF env.failAt = 0 THEN "none" ELSE env.kind]

\* The environment of a call is one the call can meet: the failing step is
\* one of the call's, only platform calls answer Unauthorized, only
\* save_state is torn, assignments do not fail.
EnvFits(rc, plan, env) ==
    /\ env.failAt <= Len(plan)
    /\ env.failAt = 0 => env.kind = "error"
    /\ env.failAt > 0 =>
         /\ plan[env.failAt] \notin Assignments
         /\ env.kind = "unauth" => plan[env.failAt] \in PlatformOps
         /\ env.kind = "torn" => plan[env.failAt] = "save_state"
    /\ env.cos \subseteq 1..rc.files
    /\ env.cos # {} => "upload_file_failed" \in Range(plan)
    /\ env.flagFail => "upload_finish_flag_failed" \in Range(plan)
    /\ env.over => Branch(rc, env) = "limit"

\* What the environment decides before the first step.
Weather(rc) ==
    {w \in [over : BOOLEAN, cos : SUBSET (1..rc.files), flagFail : BOOLEAN] :
        w.over => Branch(rc, w) = "limit"}

EnvOf(w, n, kind) ==
    [over |-> w.over, cos |-> w.cos, flagFail |-> w.flagFail,
     failAt |-> n, kind |-> kind]

\* --------------------------------------------- what the platform saw
Event(op) ==
    CASE op = "create_record" -> "create_record"
      [] op \in {"upload_thumbnail", "upload_file"} -> "upload"
      [] op = "upload_finish_flag" -> "finish_flag"
      [] op = "update_record" -> "label_update"
      [] op = "update_task_state" -> "task_succeeded"
      [] OTHER -> "-"

\* hist keeps the kinds of completed calls in the order they first happened.
RECURSIVE Note(_, _)
Note(h, ops) ==
    IF ops = <<>> THEN h
    ELSE LET e == Event(Head(ops)) IN
         Note(IF e = "-" \/ e \in Range(h) THEN h ELSE Append(h, e), Tail(ops))

Count(ops, op) == Cardinality({i \in 1..Len(ops) : ops[i] = op})

Seen(rm, r, branch) ==
    [created |-> rm.created + Count(r.done, "create_record"),
     hist |-> Note(rm.hist, r.done),
     task |-> IF "update_task_state" \in Range(r.done)
              THEN "SUCCEEDED" ELSE rm.task,
     limit |-> IF branch # "limit" THEN rm.limit
               ELSE IF r.exc = "none" THEN "done" ELSE "tried"]

LastOf(k, rc, env, r) ==
    [key |-> k, pre |-> rc, post |-> r.dsk, ops |-> r.ops, exc |-> r.exc,
     branch |-> Branch(rc, env)]

NoLast ==
    [key |-> 0, pre |-> NoDir, post |-> NoDir, ops |-> <<>>, exc |-> "none",
     branch |-> "none"]

\* Collector.run at rest.  pc: "idle" or "running"; todo: the directories
\* find_all has still to visit; result: how the latest sweep ended ("completed",
\* "aborted" by an exception that left run, "stopped" with the process);
\* at, seen, fail: the directory the latest turn visited, the condition of its
\* state file, and the failure the turn met; left: the directories an
\* aborted sweep did not visit.
Idle ==
    [pc |-> "idle", todo |-> <<>>, result |-> "none", at |-> 0,
     seen |-> "none", fail |-> "none", left |-> 0]

\* ------------------------------------------------- ApiClientState
\* device and exchange_code: 0 is None, n > 0 what the n-th registration
\* returned; api_key: "" or a token; api_key_expires_at: a time, in half
\* days.
NoApi == [device |-> 0, exchange_code |-> 0, api_key |-> "", api_key_expires_at |-> 0]

registered_device(a, n) ==
    [a EXCEPT !.device = n, !.exchange_code = n, !.api_key = "",
              !.api_key_expires_at = 0]

authorized_device(a, expires_time, auth_token) ==
    [a EXCEPT !.api_key_expires_at = expires_time, !.api_key = auth_token]

\* run_forever before its first tick.  pc: "register" (in Register.run),
\* "body" (the rest of the tick), "sleep"; ended: how the latest tick ended;
\* after: how the tick before the current one ended; snap: ApiClientState
\* when the latest tick ended, before the except clause ran; n: the auth
\* iterations of the current tick (counted to 2); calls, status,
\* registered: what the latest auth iteration called, what
\* check_device_status answered, and whether it found a registered device
\* with init_install clear; pre, init, at, ret: the ApiClientState and the
\* init_install that iteration loaded, the time it ran at, and what it
\* returned.
NoTick ==
    [pc |-> "register", ended |-> "none", after |-> "none", snap |-> NoApi,
     n |-> 0, calls |-> <<>>, status |-> "-", registered |-> FALSE,
     pre |-> NoApi, init |-> FALSE, at |-> 0, ret |-> "none"]

\* ApiClientState.is_authed at time t.
is_authed(a, t) == a.api_key # "" /\ a.api_key_expires_at > t

AuthAtRest ==
    /\ api = NoApi
    /\ install = [init_install |-> FALSE]
    /\ tick = NoTick
    /\ today = 0

\* ------------------------------------------- S3MultipartUploader
\* The multipart info file.  st: "none" (no file), "valid", or "torn"
\* (exists but is not JSON); parts: the {PartNumber, ETag} entries.  An ETag
\* is the digest of the bytes sent: here the byte range itself.
NoManifest ==
    [st |-> "none", multipart_id |-> 0, current_part_number |-> 0,
     total_bytes |-> 0, uploaded_bytes |-> 0, parts |-> <<>>]

\* upload() not running.  pc: "idle", "loop" (in the for loop), "after"
\* (past it); ret: how the latest call ended: "ok", "notfound", "error" (an
\* exception), "stopped" (with the process); info: multipart_info; id, parts,
\* uploaded_bytes, curr_part_num, total_parts: the locals of that name; nxt:
\* the next value of the loop's range; pos: the read position in the file;
\* starting: starting_part_num; stop_event: the event is set (upload()
\* clears it before it reads it).
NoUpload ==
    [pc |-> "idle", ret |-> "none", info |-> NoManifest, id |-> 0,
     parts |-> <<>>, uploaded_bytes |-> 0, curr_part_num |-> 0,
     total_parts |-> 0, nxt |-> 0, pos |-> 0, starting |-> 0,
     stop_event |-> FALSE]

\* The object store: ids, the multipart uploads created; sent, the latest
\* upload_part request that succeeded; completed, the Parts of the latest
\* complete_multipart_upload that succeeded, and completed_id its UploadId.
NoS3 == [ids |-> 0, sent |-> <<>>, completed |-> <<>>, completed_id |-> 0]

UploaderAtRest ==
    /\ file = [exists |-> FALSE, size |-> 0]
    /\ manifest = NoManifest
    /\ s3 = NoS3
    /\ up = NoUpload
    /\ interruptions = 0
    /\ fed = 0

\* ---------------------------------------------------- RemoteConfig
\* The cache file.  st: "none", "valid" ({version, value}) or "torn" (not
\* JSON).  A version is what the platform sent, a number or a string: typ
\* says which, text is what str() makes of it.  A value is a config map: 0
\* is the empty map.
NoVersion == [typ |-> "none", text |-> 0]

NoCache == [st |-> "none", version |-> NoVersion, value |-> 0]

\* No read_config call yet.  how: the call "returned" value, or "raised",
\* or "stopped" with the process; asked, fetched: get_config_version,
\* get_config were called; ver: what get_config_version answered; pre: the
\* cache file before; enable_cache: the flag of the RemoteConfig.
NoRead ==
    [how |-> "none", value |-> 0, asked |-> FALSE, fetched |-> FALSE,
     ver |-> NoVersion, pre |-> NoCache, enable_cache |-> TRUE]

ConfigAtRest == cache = NoCache /\ rd = NoRead

\* ------------------------------------------------ EventCodeManager
Codes == {"", "200", "404", "999"}

\* The state file.  exists; last_reset_timestamp; counters (a code that is
\* no key of the JSON object counts 0).
NoCodeFile ==
    [exists |-> FALSE, last_reset_timestamp |-> 0, counters |-> [c \in Codes |-> 0]]

\* A manager as constructed: the class attribute last_reset_timestamp = 0;
\* enabled: conf.enabled.
NewManager == [last_reset_timestamp |-> 0, enabled |-> TRUE]

\* No call yet.  op: "hit" or "is_over_limit"; code; ret: what
\* is_over_limit returned; reset: _create_or_reset_state reset the state.
NoCall == [op |-> "none", code |-> "", ret |-> FALSE, reset |-> FALSE]

CodesAtRest ==
    /\ codeFile = NoCodeFile
    /\ mgr = NewManager
    /\ clock = 0
    /\ hits = [c \in Codes |-> 0]
    /\ call = NoCall

\* ------------------------------------------------ FileStateHandler
\* The paths of the index: path 2 is a bag directory, the others are files;
\* the last path lies in directory 2, the others in directory 1.
Paths == 1..NPaths

\* None
None == -1

\* No entry for a path.
Absent ==
    [st |-> "absent", unsupported |-> FALSE, start_time |-> None,
     end_time |-> None, is_dir |-> FALSE]

\* No get_files call since the index last changed.  dir, start_time,
\* end_time, get_dir: the arguments; ret: the paths returned; raised: the
\* call raised.
NoQuery ==
    [dir |-> 0, start_time |-> 0, end_time |-> 0, get_dir |-> FALSE, ret |-> {},
     raised |-> FALSE]

IndexAtRest == state = [p \in Paths |-> Absent] /\ got = NoQuery

\* ------------------------------------------- RecordCache, FileInfo
\* A RecordCache object.  event_code: None or a string; timestamp:
\* milliseconds since the epoch; files, file_infos: lists of paths (a
\* FileInfo is named by its filepath); paths_to_delete: source paths.
NoText == "None"

NoRecordCache ==
    [event_code |-> NoText, timestamp |-> 0, files |-> <<>>, file_infos |-> <<>>,
     paths_to_delete |-> {}]

\* dir: the cache dir exists; paths: the source paths that exist.
NoTree == [dir |-> FALSE, paths |-> {}]

\* No operation yet.  op: "init" (the constructor), "delete"
\* (delete_cache_dir), "materialize" (the mod made the record of a request)
\* or "uploaded" (handle_record set uploaded=true); delete_after_upload: the
\* collector's configuration in that call; files: the files argument of the constructor; key:
\* the key of the object constructed; delay: delay_in_hours; at: the time of
\* the call; pre, post: the tree before and after it; raised: the call
\* raised; failed: the source paths whose removal failed.
NoAct ==
    [op |-> "none", files |-> <<>>, key |-> "", delay |-> 0, at |-> 0,
     pre |-> NoTree, post |-> NoTree, raised |-> FALSE, failed |-> {},
     delete_after_upload |-> FALSE]

\* FileInfo(filepath=...): size and sha256 are None.  A sha256 is modelled
\* by the bytes that were hashed.
NoSha == <<None>>

NewFileInfo == [size |-> None, sha256 |-> NoSha]

\* No complete() call yet.  pre: the FileInfo before the call; ret: the
\* FileInfo returned; force_rehash, skip_sha256: the arguments.
NoComplete ==
    [op |-> "none", pre |-> NewFileInfo, ret |-> NewFileInfo,
     force_rehash |-> FALSE, skip_sha256 |-> FALSE]

ModelsAtRest ==
    /\ rcache = NoRecordCache
    /\ tree = NoTree
    /\ wall = 0
    /\ act = NoAct
    /\ finfo = NewFileInfo
    /\ bytes = <<>>
    /\ hashed = NoComplete

\* ------------------------------------------------ upload requests
\* No request file.  st: "none" or "valid"; flag; cut: the window and
\* extraFiles; gathered: the paths copied or zipped into the temp dir
\* (the bag, log, files, dirs and zips keys); uploaded: the key handle_error_json
\* writes.
NoJson ==
    [st |-> "none", flag |-> FALSE, start |-> 0, end |-> 0, extraFiles |-> {},
     gathered |-> {}, uploaded |-> FALSE]

\* conversions: the times handle_error_json saved a RecordCache for the
\* request; materializations: the times the request was rewritten with
\* flag true; at: the time of the latest one (None: not yet).
NoConv == [conversions |-> 0, materializations |-> 0, at |-> None]

ModAtRest == error_json = NoJson /\ modclock = 0 /\ conv = NoConv

\* ------------------------------------------------- units of work
Units == 1..NUnits

\* Nothing known of a unit.  kind: "none", "request" (an upload request of
\* the mod) or "task" (an upload task of the platform); startTime: the
\* timestamp given to its RecordCache (None: not yet); key: the key of the
\* RecordCache made for it (NoText: not yet).
NoUnit == [kind |-> "none", startTime |-> None, key |-> NoText]

KeysAtRest == unit = [u \in Units |-> NoUnit] /\ recdirs = {} /\ msclock = 0

LimitAtRest == made = [c \in Codes |-> 0]

\* ------------------------------------- the index, with sizes
\* The children of the watched directory: an mcap file and a ROS2 bag
\* directory (McapHandler and Ros2Handler, both static).
Children == {"a.mcap", "bag"}

Sizes == 1..MaxFileSize

\* No such child.  size: what its handler's get_file_size gives (st_size
\* of a file, the db3 and metadata files of a bag directory); reads: what
\* update_path_state meets, "ok", "raises" or "nosummary" (an mcap file
\* without summary).
NoFile == [exists |-> FALSE, size |-> None, reads |-> "ok"]

\* No entry.  times: start_time and end_time are set.
NoEntry ==
    [st |-> "absent", size |-> None, unsupported |-> FALSE, processed |-> FALSE,
     times |-> FALSE]

\* raised_size: the size at which the latest extraction raised (None: it
\* did not); again: a later sweep ran the extraction again at that size.
NoSwept == [raised_size |-> None, again |-> FALSE]

DiagAtRest ==
    /\ fsys = [p \in Children |-> NoFile]
    /\ findex = [p \in Children |-> NoEntry]
    /\ fsaved = [p \in Children |-> NoEntry]
    /\ runs = [p \in Children |-> [n \in Sizes |-> 0]]
    /\ swept = [p \in Children |-> NoSwept]
    /\ todo = {}
    /\ fresh = FALSE

\* ---------------------------------------- should_trigger_action
Scopes == {"device", "global"}

\* No call yet.  limit: uploadLimit of the hit, per scope the times of the
\* limit (None: the scope is not configured); set: the hit has an
\* uploadLimit; counts: what count_diagnosis_rules_hit answers per scope
\* (None: the query fails); queried: the scopes it was called for; ret.
NoTrigger ==
    [op |-> "none", set |-> FALSE, limit |-> [sc \in Scopes |-> None],
     counts |-> [sc \in Scopes |-> None], queried |-> {}, ret |-> FALSE]

TriggerAtRest == trig = NoTrigger

\* ------------------------------------------- the network-usage meter
NoUsage == [upload_bytes |-> 0, download_bytes |-> 0]

\* The sweep thread outside the heartbeat.  pc: "idle", "read" (the values
\* are read), "sent" (send_heartbeat returned); outcome: how the latest end
\* of Collector.run went: "ok", "unauth" (the sweep ended early), "nodevice",
\* "failed" (send_heartbeat raised); sent: the values the heartbeat
\* carried; pre, post: the meter before and after; n: heartbeats so far.
NoBeat ==
    [pc |-> "idle", outcome |-> "none", sent |-> NoUsage, pre |-> NoUsage,
     post |-> NoUsage, n |-> 0]

\* pc: "idle" or "loaded" (the counter is read, the sum is not yet stored);
\* field: the counter; tmp: the value read; b: the bytes to add.
NoWorker == [pc |-> "idle", field |-> "upload_bytes", tmp |-> 0, b |-> 0]

\* fed: the sum of the increments; reported: the sum of the values the
\* heartbeats that succeeded carried.
NoSums == [fed |-> NoUsage, reported |-> NoUsage]

MeterAtRest ==
    /\ meter = NoUsage
    /\ beat = NoBeat
    /\ worker = NoWorker
    /\ sums = NoSums

ExtrasAtRest ==
    KeysAtRest /\ LimitAtRest /\ DiagAtRest /\ TriggerAtRest /\ MeterAtRest

UtilitiesAtRest ==
    /\ UploaderAtRest /\ ConfigAtRest /\ CodesAtRest /\ IndexAtRest
    /\ ModelsAtRest /\ ModAtRest /\ ExtrasAtRest

OffCollectorAtRest == AuthAtRest /\ UtilitiesAtRest

\* ------------------------------------------ handle_record on its own
\* A direct call of handle_record on any RecordCache (as the tests make).
HandleRecordOn(k, env) ==
    LET rc == disk[k]
        plan == HandleRecord(rc, env, conf, now)
        r == Exec(rc, plan, env)
        rm == Seen(remote[k], r, Branch(rc, env))
    IN  /\ rc.st = "valid"
        /\ EnvFits(rc, plan, env)
        /\ rm.created <= MaxCreated
        /\ disk' = [disk EXCEPT ![k] = r.dsk]
        /\ remote' = [remote EXCEPT ![k] = rm]
        /\ last' = LastOf(k, rc, env, r)
        /\ UNCHANGED <<sweep, conf, now, req>>
        /\ UNCHANGED offCollector

AnyRecordCache ==
    {[st |-> "valid", name |-> n, uploaded |-> u, skipped |-> s, code |-> c,
      task |-> t, img |-> i, mom |-> m, files |-> f, ts |-> 0] :
        n \in BOOLEAN, u \in BOOLEAN, s \in BOOLEAN, c \in BOOLEAN,
        t \in BOOLEAN, i \in BOOLEAN, m \in 0..MaxMoments, f \in 0..MaxFiles}

Confs ==
    [delete_after_upload : BOOLEAN, delete_after_interval_in_hours : {-1, 0}]

InitHandle ==
    /\ \E rc \in AnyRecordCache : disk = [k \in Keys |-> IF k = 1 THEN rc ELSE NoDir]
    /\ remote = [k \in Keys |-> NoRemote]
    /\ last = NoLast
    /\ sweep = Idle
    /\ conf \in {cf \in Confs :
                    cf.delete_after_upload <=> cf.delete_after_interval_in_hours >= 0}
    /\ now = 1
    /\ req = [k \in Keys |-> "none"]
    /\ OffCollectorAtRest

\* handle_record has no except clause of its own: which exception a platform
\* call raised matters to its caller only.
HandleKinds == {"error", "torn"}

CallHandleRecord ==
    \E k \in Keys : \E w \in Weather(disk[k]) :
        \E n \in 0..Len(HandleRecord(disk[k], w, conf, now)), kind \in HandleKinds :
            HandleRecordOn(k, EnvOf(w, n, kind))

NextHandle == CallHandleRecord

SpecHandle == InitHandle /\ [][NextHandle]_vars

\* ----------------------------------------- properties of handle_record
DoneOf(l) == IF l.exc = "none" THEN l.ops ELSE Front(l.ops)

FurtherRemote == (PlatformOps \cup UploadOps) \ {"create_record"}

CreateOrUpload == {"create_record"} \cup UploadOps

\* C1: once create_record has been called, no further remote operation
\* (thumbnail upload, create_event, create_task, ...) of the call is started
\* before a save_state has followed the create_record.
C1_PersistBeforeFurtherRemote ==
    \A i \in 1..Len(last.ops) : \A j \in 1..Len(last.ops) :
        (i < j /\ last.ops[i] = "create_record" /\ last.ops[j] \in FurtherRemote)
            => \E m \in (i + 1)..(j - 1) : last.ops[m] = "save_state"

\* A call created the remote record, failed in the thumbnail upload, left the
\* persisted state without record.name, and a second remote record exists.
C1_Witness ==
    /\ last.branch = "main"
    /\ "create_record" \in Range(last.ops)
    /\ last.ops[Len(last.ops)] = "upload_thumbnail"
    /\ last.exc = "error"
    /\ last.post.st = "valid" /\ ~last.post.name
    /\ remote[last.key].created = 2

\* C2: whatever fails and wherever the process stops, a call leaves a
\* persisted state that is a RecordCache (S0..S3) in which a persisted
\* record.name, uploaded=true or skipped=true is still there (or it removed
\* the directory after its last transition).
C2_PhaseOnlyForward ==
    last.key # 0 =>
        \/ last.post.st = "none" /\ "delete_cache_dir" \in Range(DoneOf(last))
        \/ /\ last.post.st = "valid"
           /\ last.pre.name => last.post.name
           /\ last.pre.uploaded => last.post.uploaded
           /\ last.pre.skipped => last.post.skipped

\* A record in S2 whose state file is no longer JSON: the process stopped
\* inside the save_state that was to persist uploaded=true.
C2_Witness ==
    /\ Phase(last.pre) = "S2"
    /\ "update_record" \in Range(last.ops)
    /\ last.exc = "torn"
    /\ last.post.st = "unparseable"

PersistedSkipped(l) ==
    \/ l.post.st = "valid" /\ l.post.skipped
    \/ l.post.st = "none" /\ "save_state" \in Range(DoneOf(l))

C6_SkippedIsFrame ==
    (last.key # 0 /\ last.pre.skipped) =>
        /\ last.ops = <<>>
        /\ last.post = last.pre
        /\ last.exc = "none"

\* A call on a skipped record that also carries a name, uploaded=false, an
\* event code, a task and payload files.
C6_Witness ==
    /\ last.key # 0
    /\ last.pre.skipped /\ last.pre.name /\ ~last.pre.uploaded
    /\ last.pre.code /\ last.pre.task /\ last.pre.files > 0
    /\ disk[last.key] = last.pre

\* ------------------------------------------------------ the producers
\* An upload request (a JSON file of the mod's state dir, flag true) appears.
\* Its startTime is the clock plus a random offset: a record key not in use.
NewRequest(k) ==
    /\ req[k] = "none"
    /\ disk[k].st = "none"
    /\ remote[k] = NoRemote
    /\ req' = [req EXCEPT ![k] = "ready"]
    /\ UNCHANGED <<disk, remote, last, sweep, conf, now>>
    /\ UNCHANGED offCollector

\* RecordCache(timestamp=startTime).load_state(): the state file's content
\* when there is one, the defaults otherwise.
LoadState(d, t) ==
    IF d.st = "valid" THEN d ELSE RecordCache(FALSE, FALSE, FALSE, 0, 0, t)

\* The RecordCache handle_error_json saves: file_infos, record (title and
\* description only), labels and paths_to_delete are overwritten, every
\* other field is as loaded.
Converted(d, t, f, i) ==
    [LoadState(d, t) EXCEPT !.name = FALSE, !.files = f, !.img = i]

\* DefaultMod.handle_error_json on a request with flag true and no "uploaded"
\* or "skipped" key.  written: the request JSON is rewritten with
\* uploaded=true (otherwise the rewrite raised, or the process stopped before
\* it).  load_state raises on a state file that is not JSON; DefaultMod.run
\* catches it.
HandleErrorJson(k, f, i, written) ==
    /\ sweep.pc = "idle"
    /\ req[k] = "ready"
    /\ IF disk[k].st = "unparseable"
       THEN /\ ~written /\ f = 1 /\ ~i
            /\ UNCHANGED <<disk, req>>
       ELSE /\ disk' = [disk EXCEPT ![k] =
                          Converted(disk[k], IF disk[k].st = "valid" THEN disk[k].ts ELSE now, f, i)]
            /\ req' = [req EXCEPT ![k] = IF written THEN "converted" ELSE "ready"]
    /\ UNCHANGED <<remote, last, sweep, conf, now>>
    /\ UNCHANGED offCollector

\* TaskHandler._handle_upload_task with a non-empty file list: a RecordCache
\* keyed by the task and the clock, in its own thread.
HandleUploadTask(k, f, i) ==
    /\ disk[k].st = "none"
    /\ req[k] = "none"
    /\ remote[k] = NoRemote
    /\ disk' = [disk EXCEPT ![k] = RecordCache(TRUE, TRUE, i, 0, f, now)]
    /\ remote' = [remote EXCEPT ![k].task = "PROCESSING"]
    /\ UNCHANGED <<last, sweep, conf, now, req>>
    /\ UNCHANGED offCollector

\* ------------------------------------------------------ Collector.run
RECURSIVE Perms(_)
Perms(S) ==
    IF S = {} THEN {<<>>}
    ELSE UNION {{<<x>> \o p : p \in Perms(S \ {x})} : x \in S}

\* The record directories of the records root.
Dirs == {k \in Keys : disk[k].st # "none"}

\* run starts: find_all iterates the records root, in directory order.
RunStart ==
    /\ sweep.pc = "idle"
    /\ \E order \in Perms(Dirs) :
          sweep' = [Idle EXCEPT !.pc = "running", !.todo = order]
    /\ last' = NoLast
    /\ UNCHANGED <<disk, remote, conf, now, req>>
    /\ UNCHANGED offCollector

Visit(k, seen, fail) ==
    [sweep EXCEPT !.todo = Tail(@), !.at = k, !.seen = seen, !.fail = fail]

Leave(k, seen, fail, result) ==
    [Idle EXCEPT !.result = result, !.at = k, !.seen = seen, !.fail = fail,
                 !.left = Len(sweep.todo) - 1]

\* find_all on a state file that is JSON but no RecordCache: ValidationError
\* is caught and the directory removed.
FindAllInvalid ==
    /\ sweep.pc = "running" /\ sweep.todo # <<>>
    /\ disk[Head(sweep.todo)].st = "invalid"
    /\ disk' = [disk EXCEPT ![Head(sweep.todo)] = NoDir]
    /\ sweep' = Visit(Head(sweep.todo), "invalid", "none")
    /\ UNCHANGED <<remote, last, conf, now, req>>
    /\ UNCHANGED offCollector

\* find_all on a state file that is not JSON: json.load raises
\* JSONDecodeError, which find_all does not catch and run's for statement is
\* outside run's try.
FindAllUnparseable ==
    /\ sweep.pc = "running" /\ sweep.todo # <<>>
    /\ disk[Head(sweep.todo)].st = "unparseable"
    /\ sweep' = Leave(Head(sweep.todo), "unparseable", "json_decode", "aborted")
    /\ UNCHANGED <<disk, remote, last, conf, now, req>>
    /\ UNCHANGED offCollector

\* The retention step of run, after handle_record returned or its exception
\* was logged: rmtree when due and the directory is still there.
RetentionDue(rc, d, cf, t) ==
    d.st # "none" /\ DeleteDue(cf.delete_after_interval_in_hours, t, rc.ts)

\* One turn of run's loop on a valid record: handle_record, the except
\* clauses, the retention step.  delFail: the retention rmtree raises.
RunTurn(env, delFail) ==
    LET k == Head(sweep.todo)
        rc == disk[k]
        plan == HandleRecord(rc, env, conf, now)
        r == Exec(rc, plan, env)
        rm == Seen(remote[k], r, Branch(rc, env))
        due == r.exc \in {"none", "error"} /\ RetentionDue(rc, r.dsk, conf, now)
    IN  /\ sweep.pc = "running" /\ sweep.todo # <<>>
        /\ rc.st = "valid"
        /\ EnvFits(rc, plan, env)
        /\ rm.created <= MaxCreated
        /\ delFail => due
        /\ disk' = [disk EXCEPT ![k] = IF due /\ ~delFail THEN NoDir ELSE r.dsk]
        /\ remote' = [remote EXCEPT ![k] = rm]
        /\ last' = LastOf(k, rc, env, r)
        /\ sweep' = CASE r.exc = "torn" -> Leave(k, "valid", "stop", "stopped")
                      [] r.exc = "unauth" -> Leave(k, "valid", "unauth", "aborted")
                      [] delFail -> Leave(k, "valid", "retention", "aborted")
                      [] OTHER -> Visit(k, "valid", IF r.exc = "error" THEN "error" ELSE "none")
        /\ UNCHANGED <<conf, now, req>>
        /\ UNCHANGED offCollector

\* The loop is over: heartbeat, counters.
RunEnd ==
    /\ sweep.pc = "running" /\ sweep.todo = <<>>
    /\ sweep' = [sweep EXCEPT !.pc = "idle", !.result = "completed"]
    /\ last' = NoLast
    /\ UNCHANGED <<disk, remote, conf, now, req>>
    /\ UNCHANGED offCollector

\* The scheduler sleeps between ticks.
Sleep ==
    /\ sweep.pc = "idle"
    /\ now < MaxNow
    /\ now' = now + 1
    /\ UNCHANGED <<disk, remote, last, sweep, conf, req>>
    /\ UNCHANGED offCollector

\* The directory find_all visits next.
Current == IF sweep.todo = <<>> THEN NoDir ELSE disk[Head(sweep.todo)]

RunRecord ==
    \E w \in Weather(Current) :
        \E n \in 0..Len(HandleRecord(Current, w, conf, now)),
           kind \in Kinds, delFail \in BOOLEAN :
              RunTurn(EnvOf(w, n, kind), delFail)

\* One turn of run's loop, whatever the directory holds.
Turn ==
    \/ FindAllInvalid
    \/ FindAllUnparseable
    \/ RunRecord

\* ------------------------------------- the life of one record cache
\* The producers, the sweeps and the clock, on one record key.
InitCollector ==
    /\ \E d \in {NoDir, Corrupt("invalid")} :
          disk = [k \in Keys |-> IF k = 1 THEN d ELSE NoDir]
    /\ remote = [k \in Keys |-> NoRemote]
    /\ last = NoLast
    /\ sweep = Idle
    /\ conf \in Confs
    /\ now = 0
    /\ req = [k \in Keys |-> "none"]
    /\ OffCollectorAtRest

NextCollector ==
    \/ NewRequest(1)
    \/ \E f \in 1..MaxFiles, i \in BOOLEAN, written \in BOOLEAN :
          HandleErrorJson(1, f, i, written)
    \/ \E f \in 1..MaxFiles, i \in BOOLEAN : HandleUploadTask(1, f, i)
    \/ RunStart
    \/ Turn
    \/ RunEnd
    \/ Sleep

SpecCollector == InitCollector /\ [][NextCollector]_vars

\* --------------------------------------- one records root, many records
\* What a records root may hold when a sweep starts.
SweepDirs ==
    {Corrupt("invalid"), Corrupt("unparseable")}
    \cup {RecordCache(c, c, FALSE, 0, 1, 0) : c \in BOOLEAN}
    \cup {[RecordCache(TRUE, TRUE, FALSE, 0, 1, 0) EXCEPT !.name = TRUE]}

InitSweep ==
    /\ disk \in [Keys -> SweepDirs]
    /\ remote = [k \in Keys |-> NoRemote]
    /\ last = NoLast
    /\ \E order \in Perms(Keys) :
          sweep = [Idle EXCEPT !.pc = "running", !.todo = order]
    /\ conf \in Confs
    /\ now = 1
    /\ req = [k \in Keys |-> "none"]
    /\ OffCollectorAtRest

\* One sweep, from find_all's first directory to run's end.
NextSweep ==
    \/ Turn
    \/ RunEnd

SpecSweep == InitSweep /\ [][NextSweep]_vars

\* ------------------------------------- properties of the record's life
\* C3: every persisted RecordCache has an unambiguous phase: not both
\* skipped and uploaded, skipped only without record.name, uploaded only with
\* record.name.
C3_PhaseUnambiguous ==
    \A k \in Keys : disk[k].st = "valid" =>
        /\ ~(disk[k].skipped /\ disk[k].uploaded)
        /\ disk[k].skipped => ~disk[k].name
        /\ disk[k].uploaded => disk[k].name

\* An uploaded record that the mod converted again: uploaded=true is
\* persisted with no record.name, and the remote record exists.
C3_Witness ==
    \E k \in Keys :
        /\ disk[k].st = "valid" /\ disk[k].uploaded /\ ~disk[k].name
        /\ remote[k].created = 1
        /\ "label_update" \in Range(remote[k].hist)

Index(h, e) == CHOOSE i \in 1..Len(h) : h[i] = e

Precedes(h, a, b) ==
    b \in Range(h) => (a \in Range(h) /\ Index(h, a) < Index(h, b))

\* C4 (amended): for each record cache, the first create_record precedes
\* the first upload, the first finish.flag upload precedes the first label
\* update, and the first label update precedes the task's SUCCEEDED unless
\* the limiter refused the record (the over-limit branch marks the task
\* SUCCEEDED with no label update).
C4_OrderUnlessSkipped ==
    \A k \in Keys :
        /\ Precedes(remote[k].hist, "create_record", "upload")
        /\ Precedes(remote[k].hist, "finish_flag", "label_update")
        /\ remote[k].limit = "none"
              => Precedes(remote[k].hist, "label_update", "task_succeeded")

\* A task's record went through the whole upload, in order.
C4_Witness ==
    \E k \in Keys :
        /\ remote[k].hist = <<"create_record", "upload", "finish_flag",
                              "label_update", "task_succeeded">>
        /\ remote[k].limit = "none"
        /\ remote[k].task = "SUCCEEDED"

\* C4 as stated: the three orders hold for every record cache.
C4_OrderAlways ==
    \A k \in Keys :
        /\ Precedes(remote[k].hist, "create_record", "upload")
        /\ Precedes(remote[k].hist, "finish_flag", "label_update")
        /\ Precedes(remote[k].hist, "label_update", "task_succeeded")

\* ------------------------------------------- properties of the sweep
UploadFailed(l) ==
    \/ "upload_file_failed" \in Range(l.ops)
    \/ "upload_finish_flag_failed" \in Range(l.ops)
    \/ /\ l.exc = "error"
       /\ l.ops[Len(l.ops)] \in {"upload_file", "upload_finish_flag"}

LabelOrTask == {"update_record", "put_task_tags", "update_task_state"}

Expired(l) ==
    DeleteDue(conf.delete_after_interval_in_hours, now, l.pre.ts)

\* C7 (amended): when the upload of a payload file or of finish.flag fails,
\* the call starts no label update and no task update and leaves a persisted
\* S2 state with uploaded=false; the directory is then still there for the
\* next sweep, unless the retention step of the same turn removed it (the
\* retention interval is set and the record is older than it).
C7_FailedUploadStaysS2 ==
    (last.key # 0 /\ UploadFailed(last)) =>
        /\ Range(last.ops) \cap LabelOrTask = {}
        /\ last.post.st = "valid" /\ Phase(last.post) = "S2"
        /\ \/ disk[last.key] = last.post
           \/ Expired(last) /\ disk[last.key].st = "none"

\* A payload upload failed, the sweep went on, and the record is on disk in S2.
C7_Witness ==
    /\ last.key # 0
    /\ "upload_file_failed" \in Range(last.ops)
    /\ sweep.at = last.key /\ sweep.fail = "none"
    /\ disk[last.key].st = "valid" /\ Phase(disk[last.key]) = "S2"
    /\ disk[last.key].files > 0

\* C7 as stated: after the failed upload the record is on disk in S2 for the
\* next sweep.
C7_FailedUploadRetried ==
    (last.key # 0 /\ UploadFailed(last)) =>
        /\ Range(last.ops) \cap LabelOrTask = {}
        /\ last.post.st = "valid" /\ Phase(last.post) = "S2"
        /\ disk[last.key] = last.post

\* C8: a failure of handle_record or of the retention step ends the sweep
\* before the remaining records if and only if it is Unauthorized.
C8_OnlyUnauthorizedAborts ==
    sweep.fail \in {"error", "unauth", "retention"} =>
        (sweep.result = "aborted" <=> sweep.fail = "unauth")

\* The retention rmtree raised: the sweep is over and a valid record was
\* not visited.
C8_Witness ==
    /\ sweep.fail = "retention"
    /\ sweep.result = "aborted" /\ sweep.pc = "idle"
    /\ sweep.left > 0
    /\ \E k \in Keys : k # sweep.at /\ disk[k].st = "valid" /\ remote[k] = NoRemote

\* C9: a directory whose state file is corrupt (not JSON, or no RecordCache)
\* is removed by find_all, and the sweep goes on to the other directories.
C9_CorruptRemoved ==
    sweep.seen \in {"invalid", "unparseable"} =>
        /\ disk[sweep.at].st = "none"
        /\ sweep.result # "aborted"

\* A state file that is not JSON ended the sweep: its directory is still
\* there and a valid record was not visited.
C9_Witness ==
    /\ sweep.seen = "unparseable"
    /\ disk[sweep.at].st = "unparseable"
    /\ sweep.result = "aborted"
    /\ sweep.left > 0
    /\ \E k \in Keys : k # sweep.at /\ disk[k].st = "valid" /\ remote[k] = NoRemote

\* =========================================================== Part II
\* What the platform answers to the calls of one auth iteration; expires:
\* the half days until the token it hands out expires.
Answers ==
    [register : {"ok", "unauth", "error"},
     status : {"ok", "gone", "rejected", "unauth", "error"},
     token : {"token", "none", "unauth", "error"},
     expires : 1..(Day + 1)]

FastPathUntilExpiry(a, t) == a.api_key # "" /\ a.api_key_expires_at > t

\* Step 1 of register_and_authorize_device: re-auth a day before expiry.
FastPath(a, t) == a.api_key # "" /\ a.api_key_expires_at - Day > t

MustRegisterUnlessInstalling(a, inst) == a.device = 0 \/ a.exchange_code = 0

\* Step 2's condition.
MustRegister(a, inst) ==
    a.device = 0 \/ a.exchange_code = 0 \/ inst.init_install

RefusedWhenGone(status) == status = "gone"

\* Step 3: the device does not exist any more, or it is rejected.
Refused(status) == status \in {"gone", "rejected"}

\* One call of register_and_authorize_device.  ret: "true", "false", or the
\* exception that left it ("unauth": Unauthorized, "error": any other).
register_and_authorize_device(a, inst, t, ans) ==
    LET out(a2, i2, calls, ret, status) ==
            [api |-> a2, install |-> i2, calls |-> calls, ret |-> ret,
             status |-> status]
    IN  IF FastPath(a, t) THEN out(a, inst, <<>>, "true", "-")
        ELSE IF MustRegister(a, inst)
        THEN IF ans.register = "ok"
             THEN out(registered_device(a, a.device + 1),
                      [init_install |-> FALSE], <<"register_device">>, "false", "-")
             ELSE out(a, inst, <<"register_device">>, ans.register, "-")
        ELSE IF ans.status \in {"unauth", "error"}
        THEN out(a, inst, <<"check_device_status">>, ans.status, ans.status)
        ELSE IF Refused(ans.status)
        THEN out(a, inst, <<"check_device_status">>, "false", ans.status)
        ELSE LET calls == <<"check_device_status", "exchange_device_auth_token">>
             IN  CASE ans.token = "token" ->
                        out(authorized_device(a, t + ans.expires, "token"), inst,
                            calls, "true", ans.status)
                   [] ans.token = "none" -> out(a, inst, calls, "false", ans.status)
                   [] OTHER -> out(a, inst, calls, ans.token, ans.status)

EscapeKeepsToken(a, exc) == a

\* The except clauses of run_forever: Unauthorized reloads the persisted
\* ApiClientState, clears the token and saves; DeviceNotFound and any other
\* exception are logged.
Escape(a, exc) ==
    IF exc = "unauth" THEN authorized_device(a, 0, "") ELSE a

Min(a, b) == IF a < b THEN a ELSE b

\* One iteration of Register.run's loop, at the start of a tick.
RegisterRun(ans) ==
    LET r == register_and_authorize_device(api, install, today, ans)
        escaped == r.ret \in {"unauth", "error"}
    IN  /\ tick.pc = "register"
        /\ r.api.device <= MaxRegistrations
        /\ api' = Escape(r.api, r.ret)
        /\ install' = r.install
        /\ tick' = [tick EXCEPT
                      !.pc = IF r.ret = "true" THEN "body"
                             ELSE IF r.ret = "false" THEN "register" ELSE "sleep",
                      !.ended = IF escaped THEN r.ret ELSE @,
                      !.snap = IF escaped THEN r.api ELSE @,
                      !.n = Min(@ + 1, 2),
                      !.calls = r.calls,
                      !.status = r.status,
                      !.registered = ~MustRegister(api, install),
                      !.pre = api, !.init = install.init_install,
                      !.at = today, !.ret = r.ret]
        /\ UNCHANGED today
        /\ UNCHANGED offAuth

\* The rest of the tick (Updater, the mod, the EventCodeManager,
\* Collector.run) and how it ends.
TickBody(how) ==
    /\ tick.pc = "body"
    /\ api' = Escape(api, how)
    /\ tick' = [tick EXCEPT !.pc = "sleep", !.ended = how, !.snap = api]
    /\ UNCHANGED <<install, today>>
    /\ UNCHANGED offAuth

\* time.sleep(scan_interval_in_secs), then the next tick.
TickSleep ==
    /\ tick.pc = "sleep"
    /\ tick' = [NoTick EXCEPT !.after = tick.ended, !.ended = tick.ended,
                             !.snap = tick.snap]
    /\ UNCHANGED <<api, install, today>>
    /\ UNCHANGED offAuth

\* Half a day passes.
DayPasses ==
    /\ today < MaxDay
    /\ today' = today + 1
    /\ UNCHANGED <<api, install, tick>>
    /\ UNCHANGED offAuth

CollectorAtRest ==
    /\ disk = [k \in Keys |-> NoDir]
    /\ remote = [k \in Keys |-> NoRemote]
    /\ last = NoLast
    /\ sweep = Idle
    /\ conf = [delete_after_upload |-> TRUE, delete_after_interval_in_hours |-> -1]
    /\ now = 0
    /\ req = [k \in Keys |-> "none"]

\* A device never registered, registered, or authorized until some day; an
\* installer may have set init_install.
InitAuth ==
    /\ CollectorAtRest
    /\ UtilitiesAtRest
    /\ api \in {NoApi, registered_device(NoApi, 1)}
               \cup {authorized_device(registered_device(NoApi, 1), e, "token") :
                       e \in 1..(MaxDay + Day)}
    /\ install \in [init_install : BOOLEAN]
    /\ tick = NoTick
    /\ today = 0

NextAuth ==
    \/ \E ans \in Answers : RegisterRun(ans)
    \/ \E how \in {"ok", "unauth", "error", "device_not_found"} : TickBody(how)
    \/ TickSleep
    \/ DayPasses

SpecAuth == InitAuth /\ [][NextAuth]_vars

C19_FastPathADayAhead ==
    /\ is_authed(api, today) <=> (api.api_key # "" /\ api.api_key_expires_at > today)
    /\ tick.n >= 1 =>
          /\ (tick.ret = "true" /\ tick.calls = <<>>) <=>
                (tick.pre.api_key # "" /\ tick.pre.api_key_expires_at - Day > tick.at)
          /\ ( /\ tick.pre.api_key # ""
               /\ tick.pre.api_key_expires_at - tick.at <= Day
               /\ tick.registered ) =>
                /\ tick.calls # <<>>
                /\ tick.calls[1] = "check_device_status"
                /\ tick.status = "ok" =>
                      tick.calls = <<"check_device_status", "exchange_device_auth_token">>

\* A token with less than a day to live, still valid for is_authed, was
\* replaced through check_device_status and exchange_device_auth_token.
C19_Witness ==
    /\ tick.n >= 1
    /\ is_authed(tick.pre, tick.at)
    /\ tick.pre.api_key_expires_at - tick.at < Day
    /\ tick.calls = <<"check_device_status", "exchange_device_auth_token">>
    /\ tick.ret = "true"
    /\ api.api_key_expires_at > tick.pre.api_key_expires_at

\* C19 as stated: with a token that has less than a day to live the
\* iteration goes through check_device_status and
\* exchange_device_auth_token.
C19_ExpiringTokenExchanged ==
    /\ is_authed(api, today) <=> (api.api_key # "" /\ api.api_key_expires_at > today)
    /\ tick.n >= 1 =>
          /\ (tick.ret = "true" /\ tick.calls = <<>>) <=>
                (tick.pre.api_key # "" /\ tick.pre.api_key_expires_at - Day > tick.at)
          /\ (tick.pre.api_key # "" /\ tick.pre.api_key_expires_at - tick.at < Day) =>
                tick.calls = <<"check_device_status", "exchange_device_auth_token">>

\* C33: in an auth iteration whose token is not a day ahead of its expiry,
\* register_device is called iff the loaded state has no device, no
\* exchange_code, or init_install set; it is then the only call of the
\* iteration, which does not return true; and when it succeeds the
\* persisted state holds the device and exchange_code it returned, an empty
\* api_key and init_install false, the iteration returns false and
\* Register.run goes on to its next iteration.
C33_RegisterWhenUnregistered ==
    ( /\ tick.n >= 1
      /\ ~(tick.pre.api_key # "" /\ tick.pre.api_key_expires_at - Day > tick.at) ) =>
        /\ "register_device" \in Range(tick.calls) <=>
              (tick.pre.device = 0 \/ tick.pre.exchange_code = 0 \/ tick.init)
        /\ "register_device" \in Range(tick.calls) =>
              /\ tick.calls = <<"register_device">>
              /\ tick.ret # "true"
        /\ (tick.calls = <<"register_device">> /\ tick.ret = "false") =>
              /\ api.device = tick.pre.device + 1
              /\ api.exchange_code = api.device
              /\ api.api_key = "" /\ api.api_key_expires_at = 0
              /\ ~install.init_install
              /\ tick.pc = "register"

\* A registered device whose token is about to expire, with init_install
\* set by an installer, was registered again: the token is gone.
C33_Witness ==
    /\ tick.n >= 1
    /\ tick.pre.device = 1 /\ tick.pre.exchange_code = 1
    /\ tick.pre.api_key = "token"
    /\ tick.pre.api_key_expires_at - tick.at <= Day
    /\ tick.init
    /\ tick.calls = <<"register_device">> /\ tick.ret = "false"
    /\ api = registered_device(NoApi, 2)
    /\ ~install.init_install

\* exchange_device_auth_token answered with a token in the latest step.
Exchanged ==
    /\ tick'.n >= 1
    /\ tick'.calls = <<"check_device_status", "exchange_device_auth_token">>
    /\ tick'.ret = "true"
    /\ tick'.status = "ok"

\* C34: when check_device_status reports a device that does not exist or is
\* rejected, the iteration returns false, exchange_device_auth_token is not
\* called, and api_key and api_key_expires_at stay as they were loaded; and
\* a step that stores a token, or a new expiry of one, is an iteration whose
\* exchange_device_auth_token call answered with a token.
C34_RefusedKeepsToken ==
    /\ [](tick.status \in {"gone", "rejected"} =>
            /\ tick.n >= 1
            /\ tick.ret = "false"
            /\ tick.calls = <<"check_device_status">>
            /\ api.api_key = tick.pre.api_key
            /\ api.api_key_expires_at = tick.pre.api_key_expires_at)
    /\ [][ ( /\ api'.api_key # ""
             /\ \/ api'.api_key # api.api_key
                \/ api'.api_key_expires_at # api.api_key_expires_at )
           => Exchanged ]_vars

\* A registered device with a token about to expire was found rejected:
\* the iteration returned false and the token is as it was.
C34_Witness ==
    /\ tick.n >= 1
    /\ tick.status = "rejected"
    /\ tick.pre.device = 1 /\ ~tick.init
    /\ tick.pre.api_key = "token"
    /\ tick.ret = "false"
    /\ api = tick.pre
    /\ tick.calls = <<"check_device_status">>

\* ========================================================== Part III
\* total_parts, from the manifest's total_bytes.
TotalParts(total_bytes) == (total_bytes + PartSize - 1) \div PartSize

SeekToStart(starting_part_num) == 0

\* The read position after "seek to previous position".
SeekTo(starting_part_num) ==
    IF starting_part_num > 1 THEN (starting_part_num - 1) * PartSize ELSE 0

\* len(file_to_upload.read(part_size_bytes)) at position pos.
Read(pos, size) == IF pos < size THEN Min(PartSize, size - pos) ELSE 0

ETag(pos, n) == [off |-> pos, len |-> n]

\* The manifest _create writes.
Created(id, size) ==
    [st |-> "valid", multipart_id |-> id, current_part_number |-> 1,
     total_bytes |-> size, uploaded_bytes |-> 0, parts |-> <<>>]

LoadedFresh(m) ==
    [pc |-> "loop", ret |-> "none", info |-> m, id |-> m.multipart_id,
     parts |-> <<>>, uploaded_bytes |-> 0, curr_part_num |-> 1,
     total_parts |-> TotalParts(m.total_bytes),
     nxt |-> m.current_part_number, pos |-> SeekTo(m.current_part_number),
     starting |-> m.current_part_number, stop_event |-> FALSE]

\* The locals of upload() once the manifest is read and the file is open.
Loaded(m) ==
    [pc |-> "loop", ret |-> "none", info |-> m, id |-> m.multipart_id,
     parts |-> m.parts, uploaded_bytes |-> m.uploaded_bytes, curr_part_num |-> 1,
     total_parts |-> TotalParts(m.total_bytes),
     nxt |-> m.current_part_number, pos |-> SeekTo(m.current_part_number),
     starting |-> m.current_part_number, stop_event |-> FALSE]

\* The locals after part u.nxt, n bytes long, was sent: the part is appended,
\* the bytes are counted, multipart_info is updated.
Recorded(u, n) ==
    LET parts == Append(u.parts, [PartNumber |-> u.nxt, ETag |-> ETag(u.pos, n)])
    IN  [u EXCEPT !.parts = parts,
                  !.uploaded_bytes = @ + n,
                  !.curr_part_num = u.nxt,
                  !.nxt = @ + 1,
                  !.pos = @ + n,
                  !.info = [@ EXCEPT !.current_part_number = u.nxt + 1,
                                     !.uploaded_bytes = u.uploaded_bytes + n,
                                     !.parts = parts]]

\* The upload_part request of the current iteration, with what the manifest
\* on disk says at that moment (mid, at), and whether the stop event was set
\* when the iteration began (stop).
Request(u, n) ==
    [UploadId |-> u.id, PartNumber |-> u.nxt, off |-> u.pos, len |-> n,
     mid |-> manifest.multipart_id, at |-> manifest.current_part_number,
     stop |-> u.stop_event]

Ended(ret) == [NoUpload EXCEPT !.ret = ret]

Interrupted(outcome) ==
    interruptions' = IF outcome = "ok" THEN interruptions ELSE interruptions + 1

\* upload() up to the for loop.  outcome: "ok"; "connection",
\* create_multipart_upload raises; "stop", the process stops once the
\* multipart upload is created; "torn", it stops once the manifest is opened
\* for writing.  A manifest that is not JSON makes json.load raise.
UploadBegin(outcome) ==
    /\ up.pc = "idle"
    /\ outcome # "ok" =>
          interruptions < MaxInterruptions /\ file.exists /\ manifest.st = "none"
    /\ IF ~file.exists
       THEN up' = Ended("notfound") /\ UNCHANGED <<manifest, s3>>
       ELSE IF manifest.st = "none"
       THEN CASE outcome = "connection" ->
                   up' = Ended("error") /\ UNCHANGED <<manifest, s3>>
              [] outcome = "stop" ->
                   /\ s3' = [s3 EXCEPT !.ids = @ + 1]
                   /\ up' = Ended("stopped")
                   /\ UNCHANGED manifest
              [] outcome = "torn" ->
                   /\ s3' = [s3 EXCEPT !.ids = @ + 1]
                   /\ manifest' = [NoManifest EXCEPT !.st = "torn"]
                   /\ up' = Ended("stopped")
              [] OTHER ->
                   /\ s3' = [s3 EXCEPT !.ids = @ + 1]
                   /\ manifest' = Created(s3.ids + 1, file.size)
                   /\ up' = Loaded(manifest')
       ELSE IF manifest.st = "torn"
       THEN up' = Ended("error") /\ UNCHANGED <<manifest, s3>>
       ELSE up' = Loaded(manifest) /\ UNCHANGED <<manifest, s3>>
    /\ Interrupted(outcome)
    /\ UNCHANGED <<file, fed>>
    /\ UNCHANGED offUploader

\* request_hook.increase_upload_bytes(b)
increase_upload_bytes(upload_bytes, b) == upload_bytes + b

\* The loop variable is assigned and the stop event is found set: break.
BreakOnStop(u) == u.nxt <= u.total_parts /\ u.stop_event

\* One turn of the for loop.  outcome: "ok"; "connection", upload_part
\* raises; "stop", the process stops once upload_part has returned; "torn",
\* it stops once the manifest is truncated.
UploadPart(outcome) ==
    LET n == Read(up.pos, file.size)
    IN  /\ up.pc = "loop"
        /\ outcome # "ok" =>
              /\ interruptions < MaxInterruptions /\ up.nxt <= up.total_parts
              /\ n > 0 /\ ~BreakOnStop(up)
        /\ IF up.nxt > up.total_parts
           THEN up' = [up EXCEPT !.pc = "after"] /\ UNCHANGED <<manifest, s3>>
           ELSE IF BreakOnStop(up) \/ n = 0
           THEN /\ up' = [up EXCEPT !.pc = "after", !.curr_part_num = up.nxt]
                /\ UNCHANGED <<manifest, s3>>
           ELSE CASE outcome = "connection" ->
                       up' = Ended("error") /\ UNCHANGED <<manifest, s3>>
                  [] outcome = "stop" ->
                       /\ s3' = [s3 EXCEPT !.sent = Request(up, n)]
                       /\ up' = Ended("stopped")
                       /\ UNCHANGED manifest
                  [] outcome = "torn" ->
                       /\ s3' = [s3 EXCEPT !.sent = Request(up, n)]
                       /\ manifest' = [NoManifest EXCEPT !.st = "torn"]
                       /\ up' = Ended("stopped")
                  [] OTHER ->
                       /\ s3' = [s3 EXCEPT !.sent = Request(up, n)]
                       /\ up' = Recorded(up, n)
                       /\ manifest' = up'.info
        /\ fed' = IF /\ up.nxt <= up.total_parts /\ ~BreakOnStop(up) /\ n > 0
                      /\ outcome = "ok"
                   THEN increase_upload_bytes(fed, up'.uploaded_bytes)
                   ELSE fed
        /\ Interrupted(outcome)
        /\ UNCHANGED file
        /\ UNCHANGED offUploader

\* upload() past the loop: _complete when the loop variable stands at the
\* last part.  outcome: "ok"; "connection", complete_multipart_upload raises;
\* "stop", the process stops before it is answered.
UploadFinish(outcome) ==
    /\ up.pc = "after"
    /\ outcome # "ok" =>
          interruptions < MaxInterruptions /\ up.curr_part_num = up.total_parts
    /\ IF up.curr_part_num = up.total_parts
       THEN CASE outcome = "connection" -> up' = Ended("error") /\ UNCHANGED s3
              [] outcome = "stop" -> up' = Ended("stopped") /\ UNCHANGED s3
              [] OTHER -> /\ s3' = [s3 EXCEPT !.completed = up.parts,
                                              !.completed_id = up.id]
                          /\ up' = Ended("ok")
       ELSE up' = Ended("ok") /\ UNCHANGED s3
    /\ Interrupted(outcome)
    /\ UNCHANGED <<file, manifest, fed>>
    /\ UNCHANGED offUploader

\* pause_current_upload, from another thread, while upload() is in its loop.
PauseCurrentUpload ==
    /\ up.pc = "loop"
    /\ ~up.stop_event
    /\ up' = [up EXCEPT !.stop_event = TRUE]
    /\ UNCHANGED <<file, manifest, s3, interruptions, fed>>
    /\ UNCHANGED offUploader

\* resumable_upload_files, remove_after: the file is unlinked once upload()
\* has returned.
RemoveAfter ==
    /\ up.pc = "idle" /\ up.ret = "ok"
    /\ file.exists
    /\ file' = [file EXCEPT !.exists = FALSE]
    /\ UNCHANGED <<manifest, s3, up, interruptions, fed>>
    /\ UNCHANGED offUploader

CallBegin == \E outcome \in {"ok", "connection", "stop", "torn"} : UploadBegin(outcome)
CallPart == \E outcome \in {"ok", "connection", "stop", "torn"} : UploadPart(outcome)
CallFinish == \E outcome \in {"ok", "connection", "stop"} : UploadFinish(outcome)

\* A file of up to MaxSize units (or an empty one) that was never uploaded.
\* Its size does not change while it is uploaded.
InitUpload ==
    /\ CollectorAtRest
    /\ AuthAtRest
    /\ ConfigAtRest /\ CodesAtRest /\ IndexAtRest
    /\ ModelsAtRest /\ ModAtRest /\ ExtrasAtRest
    /\ file \in [exists : {TRUE}, size : 0..MaxSize]
    /\ manifest = NoManifest
    /\ s3 = NoS3
    /\ up = NoUpload
    /\ interruptions = 0
    /\ fed = 0

UploadCall == CallBegin \/ CallPart \/ CallFinish

NextUpload ==
    CallBegin \/ CallPart \/ CallFinish \/ RemoveAfter \/ PauseCurrentUpload

SpecUpload == InitUpload /\ [][NextUpload]_vars

\* upload() is called again and again, and a call that runs goes on.
SpecUploadFair == SpecUpload /\ WF_vars(UploadCall)

\* ------------------------------------------- properties of the uploader
RECURSIVE SumLen(_)
SumLen(parts) ==
    IF parts = <<>> THEN 0 ELSE Head(parts).ETag.len + SumLen(Tail(parts))

Numbered(parts) == \A i \in 1..Len(parts) : parts[i].PartNumber = i

\* C11: a manifest that was written, after however many interruptions and
\* resumes, has uploaded_bytes equal to the summed lengths of the parts it
\* lists, and lists them as PartNumber 1, 2, 3, ... in this order, without
\* gap or duplicate.
C11_ManifestConsistent ==
    manifest.st = "valid" =>
        /\ manifest.uploaded_bytes = SumLen(manifest.parts)
        /\ Numbered(manifest.parts)

\* The third part was recorded by a call that resumed after two
\* interruptions.
C11_Witness ==
    /\ manifest.st = "valid"
    /\ Len(manifest.parts) = 3
    /\ interruptions = 2
    /\ up.pc = "loop" /\ up.starting > 1

\* C12: every upload_part request carries the multipart id the manifest
\* stores, a PartNumber not below the manifest's current_part_number, and
\* the bytes that start where that part begins in the file.
C12_ResumeFromManifest ==
    s3.sent # <<>> =>
        /\ s3.sent.UploadId = s3.sent.mid
        /\ s3.sent.PartNumber >= s3.sent.at
        /\ s3.sent.off = (s3.sent.PartNumber - 1) * PartSize

\* A call that found a manifest with parts recorded has sent the part the
\* manifest was waiting for.
C12_Witness ==
    /\ up.pc = "loop" /\ up.starting > 1
    /\ interruptions > 0
    /\ s3.sent # <<>>
    /\ s3.sent.PartNumber = up.starting
    /\ s3.sent.off > 0

Finished ==
    /\ Len(s3.completed) = TotalParts(file.size)
    /\ Numbered(s3.completed)
    /\ manifest.st = "valid"
    /\ manifest.uploaded_bytes = file.size

\* C13: upload() called again and again, with finitely many interruptions,
\* gets to a complete_multipart_upload with the parts 1..N in order, and to
\* a manifest whose uploaded_bytes is the file's size.
C13_RepeatedCallsFinish == <>Finished

\* Every part of a file of two parts or more is recorded, the upload was
\* never completed, and a call of upload() has returned normally.
C13_Witness ==
    /\ TotalParts(file.size) >= 2
    /\ manifest.st = "valid"
    /\ manifest.current_part_number = TotalParts(file.size) + 1
    /\ s3.completed = <<>>
    /\ up.pc = "idle" /\ up.ret = "ok"

\* C25: a payload file is removed after upload, and upload() returns
\* normally (which is what lets resumable_upload_files report all files
\* completed and handle_record set uploaded=true), only once
\* complete_multipart_upload has succeeded with all the parts of the file,
\* whatever the file's size and whatever happened to earlier calls.
C25_UploadedOnlyWhenCompleted ==
    ((up.pc = "idle" /\ up.ret = "ok") \/ ~file.exists) =>
        /\ s3.completed_id # 0
        /\ Len(s3.completed) = TotalParts(file.size)
        /\ Numbered(s3.completed)

\* An empty file was removed after an upload() that never called
\* complete_multipart_upload.
C25_Witness ==
    /\ file.size = 0 /\ ~file.exists
    /\ s3.ids = 1 /\ s3.completed_id = 0
    /\ interruptions = 0

\* C28: once pause_current_upload() is signalled during upload(), no
\* upload_part request is made by an iteration that began after it, a
\* complete_multipart_upload that succeeds carries all N parts, and every
\* request of a later call carries the manifest's multipart id and a part
\* number not below the manifest's current_part_number.
C28_PauseStopsCleanly ==
    /\ s3.sent # <<>> =>
          /\ ~s3.sent.stop
          /\ s3.sent.UploadId = s3.sent.mid
          /\ s3.sent.PartNumber >= s3.sent.at
    /\ s3.completed_id # 0 =>
          /\ Len(s3.completed) = TotalParts(file.size)
          /\ Numbered(s3.completed)

\* The multipart upload of a file of two parts was completed with part 1
\* only: the pause came while part 1 was sent, the iteration for part 2
\* broke off, and the loop variable stood at the last part.
C28_Witness ==
    /\ TotalParts(file.size) = 2
    /\ s3.completed_id # 0
    /\ Len(s3.completed) = 1
    /\ manifest.current_part_number = 2
    /\ interruptions = 0

\* =========================================================== Part IV
Versions == [typ : {"int", "str"}, text : 1..MaxVersion]

\* What get_config_version and get_config answer.
VersionAnswers == Versions \cup {[typ |-> "raise", text |-> 0]}
ConfigAnswers == [how : {"ok"}, value : 0..MaxValue] \cup {[how |-> "raise", value |-> 0]}

\* str(version)
Str(v) == v.text

NeverSame(cache_version, current_version) == FALSE

\* str(cache_version) == str(current_version)
SameVersion(cache_version, current_version) == Str(cache_version) = Str(current_version)

FallbackEmpty(content) == 0

\* content.get("value", {})
Fallback(content) == IF content.st = "valid" THEN content.value ELSE 0

\* One call of read_config on cache file c.  ver, cfg: the answers of
\* get_config_version and get_config; wr: how writing the cache file goes:
\* "ok"; "raise", open raises; "cut", the write raises once the file is
\* truncated; "stop", the process stops then.
read_config(c, enable_cache, ver, cfg, wr) ==
    LET out(how, value, c2, asked, fetched) ==
            [how |-> how, value |-> value, cache |-> c2, asked |-> asked,
             fetched |-> fetched]
        content == IF enable_cache THEN c ELSE NoCache
        fetch(asked) ==
            IF cfg.how = "raise"
            THEN out("returned", Fallback(content), c, asked, TRUE)
            ELSE IF enable_cache /\ cfg.value # 0
            THEN CASE wr = "ok" ->
                        out("returned", cfg.value,
                            [st |-> "valid", version |-> ver, value |-> cfg.value],
                            asked, TRUE)
                   [] wr = "raise" -> out("raised", 0, c, asked, TRUE)
                   [] wr = "cut" ->
                        out("raised", 0, [NoCache EXCEPT !.st = "torn"], asked, TRUE)
                   [] OTHER ->
                        out("stopped", 0, [NoCache EXCEPT !.st = "torn"], asked, TRUE)
            ELSE out("returned", cfg.value, c, asked, TRUE)
    IN  IF ~enable_cache THEN fetch(FALSE)
        ELSE IF c.st = "torn" THEN out("raised", 0, c, FALSE, FALSE)
        ELSE IF ver.typ = "raise" THEN out("returned", Fallback(content), c, TRUE, FALSE)
        ELSE IF SameVersion(content.version, ver)
        THEN out("returned", Fallback(content), c, TRUE, FALSE)
        ELSE fetch(TRUE)

ReadConfig ==
    \E ver \in VersionAnswers, cfg \in ConfigAnswers, wr \in {"ok", "raise", "cut", "stop"} :
        LET r == read_config(cache, rd.enable_cache, ver, cfg, wr)
        IN  /\ cache' = r.cache
            /\ rd' = [how |-> r.how, value |-> r.value, asked |-> r.asked,
                      fetched |-> r.fetched,
                      ver |-> IF r.asked THEN ver ELSE NoVersion,
                      pre |-> cache, enable_cache |-> rd.enable_cache]
            /\ UNCHANGED offConfig

InitConfig ==
    /\ CollectorAtRest
    /\ AuthAtRest
    /\ UploaderAtRest /\ CodesAtRest /\ IndexAtRest
    /\ ModelsAtRest /\ ModAtRest /\ ExtrasAtRest
    /\ cache = NoCache
    /\ rd \in {[NoRead EXCEPT !.enable_cache = e] : e \in BOOLEAN}

NextConfig == ReadConfig

SpecConfig == InitConfig /\ [][NextConfig]_vars

\* ---------------------------------- properties of the remote-config cache
\* C14: with caching enabled, when get_config_version answers the version
\* the cache entry holds, read_config returns the cached value and does not
\* call get_config.
C14_SameVersionServesCache ==
    (rd.enable_cache /\ rd.asked /\ rd.pre.st = "valid" /\ rd.ver = rd.pre.version) =>
        /\ rd.how = "returned"
        /\ rd.value = rd.pre.value
        /\ ~rd.fetched

C14_Witness ==
    /\ rd.enable_cache /\ rd.asked
    /\ rd.pre.st = "valid" /\ rd.ver = rd.pre.version
    /\ rd.how = "returned" /\ rd.value = rd.pre.value /\ rd.value # 0

\* C15: with caching enabled, when get_config_version raises, read_config
\* returns the cached value, the empty map when nothing is cached, does not
\* call get_config, and leaves the cache file as it was.
C15_VersionFailureServesCache ==
    (rd.enable_cache /\ rd.asked /\ rd.ver.typ = "raise") =>
        /\ rd.how = "returned"
        /\ rd.value = (IF rd.pre.st = "valid" THEN rd.pre.value ELSE 0)
        /\ ~rd.fetched
        /\ cache = rd.pre

C15_Witness ==
    /\ rd.enable_cache /\ rd.asked /\ rd.ver.typ = "raise"
    /\ rd.pre.st = "valid"
    /\ rd.how = "returned" /\ rd.value = rd.pre.value /\ rd.value # 0

\* C16: read_config never raises: whatever fails, it returns the cached
\* value or the empty map.
C16_NeverFails == rd.how # "raised"

\* read_config raised on a cache file that an interrupted write left
\* truncated.
C16_Witness ==
    /\ rd.how = "raised"
    /\ rd.pre.st = "torn"
    /\ ~rd.asked /\ ~rd.fetched

\* ============================================================ Part V
\* conf.whitelist, as in the tests: a limit of 2, no limit, and codes that
\* are no key of it.
Whitelist == [c \in {"200", "404"} |-> IF c = "200" THEN 2 ELSE -1]

\* _create_or_reset_state of manager m on state file f at time t.
create_or_reset_state(m, f, t) ==
    LET loaded == IF m.last_reset_timestamp = 0 /\ f.exists
                THEN f.last_reset_timestamp ELSE m.last_reset_timestamp
        reset_due_time == loaded + ResetInterval
        n == (t - loaded) \div ResetInterval
    IN  IF t > reset_due_time \/ ~f.exists
        THEN [mgr |-> [m EXCEPT !.last_reset_timestamp = loaded + n * ResetInterval],
              file |-> [exists |-> TRUE, last_reset_timestamp |-> t,
                        counters |-> [c \in Codes |-> 0]],
              reset |-> TRUE]
        ELSE [mgr |-> [m EXCEPT !.last_reset_timestamp = loaded], file |-> f,
              reset |-> FALSE]

CountedOnce(counters, code) == [counters EXCEPT ![code] = 1]

\* counters[code] = counters.get(code, 0) + 1
Counted(counters, code) == [counters EXCEPT ![code] = @ + 1]

\* hit(code): nothing when the limiter is disabled or the code is empty.
Hit(code) ==
    LET r == create_or_reset_state(mgr, codeFile, clock)
        since == IF r.reset THEN [c \in Codes |-> 0] ELSE hits
    IN  /\ hits[code] < MaxHits
        /\ IF ~mgr.enabled \/ code = ""
           THEN /\ UNCHANGED <<codeFile, mgr>>
                /\ hits' = IF mgr.enabled THEN [hits EXCEPT ![code] = @ + 1] ELSE hits
                /\ call' = [op |-> "hit", code |-> code, ret |-> FALSE, reset |-> FALSE]
           ELSE /\ mgr' = r.mgr
                /\ codeFile' = [r.file EXCEPT !.counters = Counted(@, code)]
                /\ hits' = [since EXCEPT ![code] = @ + 1]
                /\ call' = [op |-> "hit", code |-> code, ret |-> FALSE, reset |-> r.reset]
        /\ UNCHANGED clock
        /\ UNCHANGED offCodes

\* is_over_limit(code)
is_over_limit(f, code) ==
    IF code = "" THEN TRUE
    ELSE IF code \notin DOMAIN Whitelist THEN TRUE
    ELSE IF Whitelist[code] = -1 THEN FALSE
    ELSE f.counters[code] >= Whitelist[code]

IsOverLimit(code) ==
    LET r == create_or_reset_state(mgr, codeFile, clock)
    IN  /\ IF ~mgr.enabled
           THEN /\ UNCHANGED <<codeFile, mgr, hits>>
                /\ call' = [op |-> "is_over_limit", code |-> code, ret |-> FALSE,
                            reset |-> FALSE]
           ELSE /\ mgr' = r.mgr
                /\ codeFile' = r.file
                /\ hits' = IF r.reset THEN [c \in Codes |-> 0] ELSE hits
                /\ call' = [op |-> "is_over_limit", code |-> code,
                            ret |-> is_over_limit(r.file, code), reset |-> r.reset]
        /\ UNCHANGED clock
        /\ UNCHANGED offCodes

\* run_forever makes a new EventCodeManager each tick; so does a restart.
Restart ==
    /\ mgr.last_reset_timestamp # 0
    /\ mgr' = [NewManager EXCEPT !.enabled = mgr.enabled]
    /\ UNCHANGED <<codeFile, clock, hits, call>>
    /\ UNCHANGED offCodes

ClockTick ==
    /\ clock < MaxClock
    /\ clock' = clock + 1
    /\ UNCHANGED <<codeFile, mgr, hits, call>>
    /\ UNCHANGED offCodes

HitCode == \E code \in Codes : Hit(code)
AskCode == \E code \in Codes : IsOverLimit(code)

\* No state file yet; the clock is past the first interval.
InitCodes ==
    /\ CollectorAtRest
    /\ AuthAtRest
    /\ UploaderAtRest /\ ConfigAtRest /\ IndexAtRest
    /\ ModelsAtRest /\ ModAtRest /\ ExtrasAtRest
    /\ codeFile = NoCodeFile
    /\ mgr \in {[NewManager EXCEPT !.enabled = e] : e \in BOOLEAN}
    /\ clock \in ResetInterval..(ResetInterval + 1)
    /\ hits = [c \in Codes |-> 0]
    /\ call = NoCall

NextCodes == HitCode \/ AskCode \/ Restart \/ ClockTick

SpecCodes == InitCodes /\ [][NextCodes]_vars

\* ------------------------------------------ properties of the limiter
\* C17: with the limiter enabled, the state file counts for every code the
\* hit calls made with it since the state was last reset, and is_over_limit
\* answers true exactly for a code that is not in the whitelist, or whose
\* limit is not -1 and is reached by its counter.  (The empty code is no
\* code: hit returns at once on it.)
C17_CountersAndLimit ==
    mgr.enabled =>
        /\ \A c \in Codes \ {""} : codeFile.counters[c] = hits[c]
        /\ call.op = "is_over_limit" =>
              (call.ret <=>
                  \/ call.code \notin DOMAIN Whitelist
                  \/ /\ Whitelist[call.code] # -1
                     /\ codeFile.counters[call.code] >= Whitelist[call.code])

\* After hit(200) twice and hit(404), with a reset before them and a new
\* manager between them, is_over_limit(200) answers true.
C17_Witness ==
    /\ mgr.enabled
    /\ codeFile.counters["200"] = 2 /\ codeFile.counters["404"] = 1
    /\ call.op = "is_over_limit" /\ call.code = "200" /\ call.ret
    /\ ~call.reset
    /\ clock > codeFile.last_reset_timestamp

\* C18: when _create_or_reset_state resets, last_reset_timestamp is a
\* multiple of reset_interval_in_secs, in the manager and in the state file
\* a new manager reads it from.
C18_ResetAligned ==
    call.reset =>
        /\ mgr.last_reset_timestamp % ResetInterval = 0
        /\ codeFile.last_reset_timestamp % ResetInterval = 0

\* A reset by a manager that had read last_reset_timestamp from the state
\* file: neither its last_reset_timestamp nor the file's is a multiple of
\* the interval.
C18_Witness ==
    /\ call.reset
    /\ mgr.last_reset_timestamp % ResetInterval # 0
    /\ codeFile.last_reset_timestamp % ResetInterval # 0

\* =========================================================== Part VI
\* Path(filename).parent
Parent(p) == IF p = NPaths THEN 2 ELSE 1

\* The states update_path_state gives path p: start and end time (with
\* is_dir for a bag directory), or size and unsupported only.
Produced(p) ==
    {[st |-> "entry", unsupported |-> FALSE, start_time |-> a, end_time |-> b,
      is_dir |-> (p = 2)] : a \in 0..MaxTime, b \in 0..MaxTime}
    \cup {[st |-> "entry", unsupported |-> TRUE, start_time |-> None,
           end_time |-> None, is_dir |-> FALSE]}

\* One turn of update_dir's loop: the handler of path p sets its state.
UpdatePathState(p, fs) ==
    /\ fs.unsupported \/ fs.start_time <= fs.end_time
    /\ state[p] # fs
    /\ state' = [state EXCEPT ![p] = fs]
    /\ got' = NoQuery
    /\ UNCHANGED offIndex

\* __update_deleted_file_state: the entry of a path that is gone is deleted.
UpdateDeleted(p) ==
    /\ state[p] # Absent
    /\ state' = [state EXCEPT ![p] = Absent]
    /\ got' = NoQuery
    /\ UNCHANGED offIndex

Within(fs, start_time, end_time) ==
    fs.start_time >= start_time /\ fs.end_time <= end_time

\* file_state.get("start_time") <= end_time and
\* file_state.get("end_time") >= start_time
Overlaps(fs, start_time, end_time) ==
    fs.start_time <= end_time /\ fs.end_time >= start_time

\* The paths get_files returns on index st.
get_files(st, dir_path, start_time, end_time, get_dir) ==
    {p \in Paths :
        /\ st[p] # Absent
        /\ Parent(p) = dir_path
        /\ ~st[p].unsupported
        /\ Overlaps(st[p], start_time, end_time)
        /\ st[p].is_dir = get_dir}

\* Comparing None with a time raises TypeError.
GetFilesRaises(st, dir_path, start_time, end_time) ==
    \E p \in Paths :
        /\ st[p] # Absent
        /\ Parent(p) = dir_path
        /\ ~st[p].unsupported
        /\ \/ st[p].start_time = None
           \/ st[p].start_time <= end_time /\ st[p].end_time = None

GetFiles(dir_path, start_time, end_time, get_dir) ==
    /\ start_time <= end_time
    /\ got' = [dir |-> dir_path, start_time |-> start_time, end_time |-> end_time,
               get_dir |-> get_dir,
               ret |-> IF GetFilesRaises(state, dir_path, start_time, end_time)
                       THEN {}
                       ELSE get_files(state, dir_path, start_time, end_time, get_dir),
               raised |-> GetFilesRaises(state, dir_path, start_time, end_time)]
    /\ UNCHANGED state
    /\ UNCHANGED offIndex

UpdatePath == \E p \in Paths : \E fs \in Produced(p) : UpdatePathState(p, fs)
DeletePath == \E p \in Paths : UpdateDeleted(p)
Query ==
    \E dir_path \in 1..2, start_time \in 0..MaxTime, end_time \in 0..MaxTime,
       get_dir \in BOOLEAN : GetFiles(dir_path, start_time, end_time, get_dir)

InitIndex ==
    /\ CollectorAtRest
    /\ AuthAtRest
    /\ UploaderAtRest /\ ConfigAtRest /\ CodesAtRest
    /\ IndexAtRest
    /\ ModelsAtRest /\ ModAtRest /\ ExtrasAtRest

NextIndex == UpdatePath \/ DeletePath \/ Query

SpecIndex == InitIndex /\ [][NextIndex]_vars

\* ---------------------------------------- properties of the file index
\* C20: get_files(dir, s, e, want_dirs) returns the paths of the index whose
\* parent is dir, that are not unsupported, whose is_dir is want_dirs, and
\* whose [start_time, end_time] has a time in common with [s, e]; it returns
\* no other path and leaves none of these out.
C20_GetFilesExact ==
    got.dir # 0 =>
        /\ ~got.raised
        /\ \A p \in Paths :
              p \in got.ret <=>
                 /\ state[p].st = "entry"
                 /\ Parent(p) = got.dir
                 /\ ~state[p].unsupported
                 /\ state[p].is_dir = got.get_dir
                 /\ \E t \in 0..MaxTime :
                       /\ state[p].start_time <= t /\ t <= state[p].end_time
                       /\ got.start_time <= t /\ t <= got.end_time

\* A query for the files of directory 1 returned path 1, whose times reach
\* into the window from before it, and left out the bag directory next to
\* it.
C20_Witness ==
    /\ got.dir = 1 /\ ~got.get_dir
    /\ got.ret = {1}
    /\ state[1].start_time < got.start_time /\ state[1].end_time < got.end_time
    /\ state[2].st = "entry" /\ state[2].is_dir
    /\ Overlaps(state[2], got.start_time, got.end_time)

\* ====================== Part VII: RecordCache and FileInfo (models.py)
MaxList == 3             \* the longest files list
MaxHours == 1            \* times up to MaxHours hours and a second
MaxBytes == 3            \* the longest file
BlockSize == 2           \* block_size of sha256_file

FileNames == {"a", "b"}
SourcePaths == {1, 2}
EventCodes == {NoText, "", "20063"}
Millis == {0, 1, 1000}
Walls == {h * 3600 * 1000 + m : h \in 0..MaxHours, m \in Millis}
Timestamps == Walls \cup {90061001}

Lists == UNION {[1..n -> FileNames] : n \in 0..MaxList}

\* The keyword arguments of RecordCache(...).
CacheInputs ==
    {[NoRecordCache EXCEPT !.event_code = c, !.timestamp = t] :
        c \in EventCodes, t \in Timestamps}
    \cup {[NoRecordCache EXCEPT !.files = L] : L \in Lists}
    \cup {[NoRecordCache EXCEPT !.timestamp = t, !.file_infos = F,
                                !.paths_to_delete = P] :
            t \in Timestamps, F \in {<<>>, <<"a">>}, P \in SUBSET SourcePaths}

\* RecordCache.__init__ after pydantic has set the fields.
RecordCacheInit(data) ==
    IF data.files = <<>> THEN [data EXCEPT !.files = data.file_infos]
    ELSE IF data.file_infos = <<>> THEN [data EXCEPT !.file_infos = data.files]
    ELSE data

\* %d, %H, %M, %S: two digits.
Pad2(n) == IF n < 10 THEN "0" \o ToString(n) ELSE ToString(n)

\* datetime.fromtimestamp(seconds, utc).strftime("%Y-%m-%d-%H-%M-%S"), for a
\* time in January 1970.
strftime(seconds) ==
    "1970-01-" \o Pad2(seconds \div 86400 + 1)
    \o "-" \o Pad2((seconds \div 3600) % 24)
    \o "-" \o Pad2((seconds \div 60) % 60)
    \o "-" \o Pad2(seconds % 60)

keyAlwaysPrefixed(rc) ==
    rc.event_code \o "_" \o strftime(rc.timestamp \div 1000)
    \o "_" \o ToString(rc.timestamp % 1000)

\* RecordCache.key.  None and "" are both false.
key(rc) ==
    LET seconds == rc.timestamp \div 1000
        milliseconds == rc.timestamp % 1000
        dt == strftime(seconds)
    IN  IF rc.event_code \notin {NoText, ""}
        THEN rc.event_code \o "_" \o dt \o "_" \o ToString(milliseconds)
        ELSE dt \o "_" \o ToString(milliseconds)

delete_due_whole_seconds(delay_in_hours, time_ms, timestamp) ==
    /\ delay_in_hours >= 0
    /\ time_ms \div 1000 - timestamp \div 1000 > delay_in_hours * 3600

\* delete_cache_dir's condition, time.time() - timestamp / 1000 >
\* delay_in_hours * 3600 (a true division), with both sides in milliseconds.
delete_due(delay_in_hours, time_ms, timestamp) ==
    /\ delay_in_hours >= 0
    /\ time_ms - timestamp > delay_in_hours * 3600 * 1000

\* delete_cache_dir.  rmtree_raises: the rmtree of the cache dir raises;
\* failed: the source paths whose removal raises (logged).
delete_cache_dir(rc, tr, delay_in_hours, time_ms, rmtree_raises, failed) ==
    IF ~delete_due(delay_in_hours, time_ms, rc.timestamp)
    THEN [tree |-> tr, raised |-> FALSE]
    ELSE IF tr.dir /\ rmtree_raises
    THEN [tree |-> tr, raised |-> TRUE]
    ELSE [tree |-> [dir |-> FALSE,
                    paths |-> tr.paths \ (rc.paths_to_delete \ failed)],
          raised |-> FALSE]

\* RecordCache(**data): the object whose life the other actions follow.
Construct ==
    \E data \in CacheInputs :
        /\ act.op = "none"
        /\ rcache' = RecordCacheInit(data)
        /\ act' = [NoAct EXCEPT !.op = "init", !.files = data.files,
                                !.key = key(RecordCacheInit(data))]
        /\ UNCHANGED <<tree, wall, finfo, bytes, hashed>>
        /\ UNCHANGED offModels

\* save_state creates the cache dir.
SaveState ==
    /\ act.op # "none"
    /\ ~tree.dir
    /\ tree' = [tree EXCEPT !.dir = TRUE]
    /\ UNCHANGED <<rcache, wall, act, finfo, bytes, hashed>>
    /\ UNCHANGED offModels

\* A source path comes to exist (the mod's temp dir of a request).
MakeSourcePath ==
    \E p \in SourcePaths \ tree.paths :
        /\ tree' = [tree EXCEPT !.paths = @ \cup {p}]
        /\ UNCHANGED <<rcache, wall, act, finfo, bytes, hashed>>
        /\ UNCHANGED offModels

Elapse ==
    \E t \in Walls :
        /\ t > wall
        /\ wall' = t
        /\ UNCHANGED <<rcache, tree, act, finfo, bytes, hashed>>
        /\ UNCHANGED offModels

CallDeleteCacheDir ==
    \E delay_in_hours \in {-1, 0, 1}, rmtree_raises \in BOOLEAN,
       failed \in SUBSET (rcache.paths_to_delete \cap tree.paths) :
        LET r == delete_cache_dir(rcache, tree, delay_in_hours, wall,
                                  rmtree_raises, failed)
        IN  /\ act.op # "none"
            /\ rmtree_raises => r.raised
            /\ failed # {} => r.tree # tree
            /\ tree' = r.tree
            /\ act' = [NoAct EXCEPT !.op = "delete", !.delay = delay_in_hours,
                                    !.at = wall, !.pre = tree,
                                    !.post = r.tree, !.raised = r.raised, !.failed = failed]
            /\ UNCHANGED <<rcache, wall, finfo, bytes, hashed>>
            /\ UNCHANGED offModels

\* DefaultMod.run on a request that is due: the request gets startTime =
\* int(time.time() * 1000) + random.randint(1, 1000) and its temp dir as
\* paths_to_delete, and handle_error_json saves RecordCache(timestamp =
\* startTime).
Materialize ==
    \E offset \in {1, 1000} :
        /\ act.op = "none"
        /\ rcache' = RecordCacheInit([NoRecordCache EXCEPT
                          !.timestamp = wall + offset, !.file_infos = <<"a">>,
                          !.paths_to_delete = {1}])
        /\ tree' = [dir |-> TRUE, paths |-> tree.paths \cup {1}]
        /\ act' = [NoAct EXCEPT !.op = "materialize", !.at = wall]
        /\ UNCHANGED <<wall, finfo, bytes, hashed>>
        /\ UNCHANGED offModels

\* handle_record on a record the mod materialized, when every upload and
\* platform call succeeds: uploaded = True, save_state, and delete_cache_dir()
\* when delete_after_upload is set.  Of its steps only these touch the cache
\* dir.
HandleRecordUploaded ==
    \E delete_after_upload \in BOOLEAN :
        LET r == IF delete_after_upload
                 THEN delete_cache_dir(rcache, tree, 0, wall, FALSE, {})
                 ELSE [tree |-> tree, raised |-> FALSE]
        IN  /\ act.op = "materialize"
            /\ tree.dir
            /\ tree' = r.tree
            /\ act' = [NoAct EXCEPT !.op = "uploaded", !.at = wall, !.pre = tree,
                                    !.post = r.tree,
                                    !.delete_after_upload = delete_after_upload]
            /\ UNCHANGED <<rcache, wall, finfo, bytes, hashed>>
            /\ UNCHANGED offModels

InitCache ==
    /\ CollectorAtRest
    /\ AuthAtRest
    /\ UploaderAtRest /\ ConfigAtRest /\ CodesAtRest /\ IndexAtRest
    /\ ModelsAtRest /\ ModAtRest /\ ExtrasAtRest

NextCache ==
    \/ Construct
    \/ SaveState
    \/ MakeSourcePath
    \/ Elapse
    \/ CallDeleteCacheDir
    \/ Materialize
    \/ HandleRecordUploaded

SpecCache == InitCache /\ [][NextCache]_vars

\* ------------------------------------ properties of RecordCache
\* C21: delete_cache_dir(delay_in_hours) changes nothing (and does not
\* raise) unless delay_in_hours >= 0 and now - timestamp/1000 >
\* delay_in_hours * 3600; when that holds and the call returns, the cache dir
\* is gone and so is every path of paths_to_delete whose removal did not
\* fail, and no other path.
C21_DeleteOnlyWhenDue ==
    act.op = "delete" =>
        LET due == /\ act.delay >= 0
                   /\ act.at - rcache.timestamp > act.delay * 3600 * 1000
        IN  /\ ~due => (act.post = act.pre /\ ~act.raised)
            /\ act.post # act.pre => due
            /\ (due /\ ~act.raised) =>
                  /\ ~act.post.dir
                  /\ act.post.paths =
                        act.pre.paths \ (rcache.paths_to_delete \ act.failed)

\* A call with a delay of one hour, one millisecond after the hour has
\* passed, removed the cache dir and both source paths.
C21_Witness ==
    /\ act.op = "delete" /\ act.delay = 1
    /\ act.at - rcache.timestamp = 3600 * 1000 + 1
    /\ act.pre.dir /\ act.pre.paths = SourcePaths
    /\ rcache.paths_to_delete = SourcePaths
    /\ ~act.post.dir /\ act.post.paths = {}

\* What strftime gives for the timestamps of the model, as Python prints it.
KnownKeys ==
    {<<0, "1970-01-01-00-00-00_0">>, <<1, "1970-01-01-00-00-00_1">>,
     <<1000, "1970-01-01-00-00-01_0">>, <<3600000, "1970-01-01-01-00-00_0">>,
     <<3600001, "1970-01-01-01-00-00_1">>, <<3601000, "1970-01-01-01-00-01_0">>,
     <<90061001, "1970-01-02-01-01-01_1">>}

\* C22: the key of a constructed RecordCache is the UTC rendering
\* YYYY-MM-DD-HH-MM-SS of timestamp div 1000, "_" and timestamp mod 1000,
\* with event_code and "_" in front exactly when event_code is set (not None
\* and not empty); every RecordCache with the same event_code and timestamp
\* has the same key, whatever its other fields.
C22_KeyOfCodeAndTimestamp ==
    act.op = "init" =>
        /\ \A kk \in KnownKeys :
              kk[1] = rcache.timestamp =>
                 act.key = IF rcache.event_code \in {NoText, ""} THEN kk[2]
                           ELSE rcache.event_code \o "_" \o kk[2]
        /\ \A d \in CacheInputs :
              (d.event_code = rcache.event_code /\ d.timestamp = rcache.timestamp)
                 => key(RecordCacheInit(d)) = act.key

C22_Witness ==
    /\ act.op = "init"
    /\ rcache.event_code = "20063" /\ rcache.timestamp = 90061001
    /\ act.key = "20063_1970-01-02-01-01-01_1"

\* L without its duplicates, in first-seen order.
RECURSIVE Dedup(_)
Dedup(L) ==
    IF L = <<>> THEN <<>>
    ELSE IF L[Len(L)] \in Range(Front(L)) THEN Dedup(Front(L))
    ELSE Append(Dedup(Front(L)), L[Len(L)])

\* C23: RecordCache(files=L).files holds each distinct path of L once, in
\* first-seen order.
C23_FilesDeduplicated ==
    (act.op = "init" /\ act.files # <<>>) => rcache.files = Dedup(act.files)

\* RecordCache(files=["a", "a", "b"]) keeps the list as given.
C23_Witness ==
    /\ act.op = "init"
    /\ act.files = <<"a", "a", "b">>
    /\ rcache.files = <<"a", "a", "b">>

\* C27: with delete_after_upload set, the handle_record call that sets
\* uploaded=true has removed the record's cache dir when it returns,
\* whatever the record's timestamp.
C27_UploadedDirDeleted ==
    (act.op = "uploaded" /\ act.delete_after_upload) => ~act.post.dir

\* A record materialized with an offset of 1000 ms was uploaded one second
\* later: the clock has not passed its timestamp and the cache dir is still
\* there.
C27_Witness ==
    /\ act.op = "uploaded" /\ act.delete_after_upload
    /\ act.at = 1000 /\ rcache.timestamp = 1000
    /\ act.post.dir

\* ------------------------------------------------------- FileInfo
Contents == UNION {[1..n -> {0, 1}] : n \in 0..MaxBytes}

\* sha256_file's loop from file position pos: read a block, cut it to
\* count_down when 0 < count_down < len(block), hash it, and stop when size
\* >= 0 and the count is used up.
RECURSIVE HashBlocks(_, _, _, _, _)
HashBlocks(data, pos, count_down, size, sha256_hash) ==
    LET byte_block == SubSeq(data, pos + 1, Min(pos + BlockSize, Len(data)))
        cut == IF 0 < count_down /\ count_down < Len(byte_block)
               THEN SubSeq(byte_block, 1, count_down) ELSE byte_block
        left == IF size >= 0 THEN count_down - Len(cut) ELSE count_down
    IN  IF byte_block = <<>> THEN sha256_hash
        ELSE IF size >= 0 /\ left <= 0 THEN sha256_hash \o cut
        ELSE HashBlocks(data, pos + Len(byte_block), left, size, sha256_hash \o cut)

sha256_file(data, size) == HashBlocks(data, 0, size, size, <<>>)

\* FileInfo.complete on a file that exists: the FileInfo it returns.  "not
\* self.size" holds for None and for 0.
complete(fi, data, force_rehash, skip_sha256) ==
    LET size == IF fi.size \in {None, 0} \/ force_rehash THEN Len(data) ELSE fi.size
        sha256 == IF ~skip_sha256 /\ (fi.sha256 = NoSha \/ force_rehash)
                  THEN sha256_file(data, size) ELSE fi.sha256
    IN  [size |-> size, sha256 |-> sha256]

CallComplete ==
    \E force_rehash \in BOOLEAN, inplace \in BOOLEAN, skip_sha256 \in BOOLEAN :
        LET ret == complete(finfo, bytes, force_rehash, skip_sha256)
        IN  /\ hashed' = [op |-> "complete", pre |-> finfo, ret |-> ret,
                          force_rehash |-> force_rehash,
                          skip_sha256 |-> skip_sha256]
            /\ finfo' = IF inplace THEN ret ELSE finfo
            /\ UNCHANGED <<rcache, tree, wall, act, bytes>>
            /\ UNCHANGED offModels

\* The file grows (a log still being written).
AppendBytes ==
    \E b \in {0, 1} :
        /\ Len(bytes) < MaxBytes
        /\ bytes' = Append(bytes, b)
        /\ hashed' = NoComplete
        /\ UNCHANGED <<rcache, tree, wall, act, finfo>>
        /\ UNCHANGED offModels

\* FileInfo(filepath=...) or FileInfo(filepath=..., size=n) on a file of any
\* content.
InitFileInfo ==
    /\ CollectorAtRest
    /\ AuthAtRest
    /\ UploaderAtRest /\ ConfigAtRest /\ CodesAtRest /\ IndexAtRest
    /\ ModAtRest /\ ExtrasAtRest
    /\ rcache = NoRecordCache /\ tree = NoTree /\ wall = 0 /\ act = NoAct
    /\ finfo \in {[NewFileInfo EXCEPT !.size = n] : n \in {None} \cup 1..MaxBytes}
    /\ bytes \in Contents
    /\ hashed = NoComplete

NextFileInfo == CallComplete \/ AppendBytes

SpecFileInfo == InitFileInfo /\ [][NextFileInfo]_vars

\* --------------------------------------- properties of FileInfo
Prefix(data, n) == SubSeq(data, 1, Min(n, Len(data)))

\* C24: complete() on a FileInfo whose size is set returns that size, and the
\* sha256 it had or, when it had none, the hash of the first size bytes:
\* appends change neither; complete(force_rehash=true) returns the file's
\* current size and the hash of that many bytes.
C24_SegmentFrozen ==
    hashed.op = "complete" =>
        IF hashed.force_rehash
        THEN /\ hashed.ret.size = Len(bytes)
             /\ ~hashed.skip_sha256 => hashed.ret.sha256 = bytes
        ELSE hashed.pre.size # None =>
                /\ hashed.ret.size = hashed.pre.size
                /\ hashed.pre.sha256 # NoSha => hashed.ret.sha256 = hashed.pre.sha256
                /\ (hashed.pre.sha256 = NoSha /\ ~hashed.skip_sha256)
                      => hashed.ret.sha256 = Prefix(bytes, hashed.pre.size)

\* A FileInfo completed on an empty file, and completed again after an
\* append: size 1 with the hash of no bytes.
C24_Witness ==
    /\ hashed.op = "complete" /\ ~hashed.force_rehash
    /\ hashed.pre = [size |-> 0, sha256 |-> <<>>]
    /\ Len(bytes) = 1
    /\ hashed.ret = [size |-> 1, sha256 |-> <<>>]

\* ------------------------- further properties of the record's life
\* C26: whatever fails and however often the sweeps are repeated, at most
\* one remote record is created for a record cache.
C26_AtMostOneRemoteRecord == \A k \in Keys : remote[k].created <= 1

\* A record cache made by the task handler (no upload request is involved)
\* for which create_record succeeded twice.
C26_Witness ==
    \E k \in Keys :
        /\ req[k] = "none"
        /\ disk[k].st = "valid" /\ disk[k].task /\ disk[k].name
        /\ remote[k].created = 2

\* =================== Part VIII: upload requests (DefaultMod, mod.py)
MaxConversions == 2

\* The list of watched directories, which __find_files_and_update_error_json
\* passes to get_files as dir_path: a list equals no Path.
source_dirs == 0

\* The directories that list holds.
WatchedDirs == {1}

\* Two paths outside the index: a file that exists and one that does not.
ExtraFile == NPaths + 1
MissingFile == NPaths + 2

\* What a path's entry may be once the index is refreshed.
ValidStates(p) ==
    {fs \in Produced(p) : fs.unsupported \/ fs.start_time <= fs.end_time}
    \cup {Absent}

\* The indexes update_dirs may leave, depending on what the watched
\* directories hold.
update_dirs ==
    {st \in [Paths -> UNION {ValidStates(p) : p \in Paths}] :
        \A p \in Paths : st[p] \in ValidStates(p)}

\* Path(file).is_file() or is_dir(): the paths of a refreshed index exist.
Exists(f) == f # MissingFile

\* __dump_upload_json: a request with flag false and a cut.
DumpUploadJson ==
    \E start_time \in 0..MaxTime, end_time \in 0..MaxTime,
       extra_files \in SUBSET {ExtraFile, MissingFile} :
        /\ error_json.st = "none"
        /\ start_time <= end_time
        /\ error_json' = [NoJson EXCEPT !.st = "valid", !.start = start_time,
                                        !.end = end_time,
                                        !.extraFiles = extra_files]
        /\ UNCHANGED <<modclock, conv>>
        /\ UNCHANGED <<state, got>>
        /\ UNCHANGED offMod

\* One request as passed to get_files(dir_path, ...) by the mod: the files
\* and the dirs of the index it gathers, with cut.extraFiles, as far as they
\* exist.
Gathered(st, ej, dir_path) ==
    LET raw_files == get_files(st, dir_path, ej.start, ej.end, FALSE)
                     \cup ej.extraFiles
        raw_dirs == get_files(st, dir_path, ej.start, ej.end, TRUE)
    IN  raw_dirs \cup {f \in raw_files : Exists(f)}

\* __find_files_and_update_error_json: returns at once on a request that has
\* flag true or whose cut.end is still ahead; otherwise refreshes the index,
\* gathers, and rewrites the request with flag true.
FindFilesAndUpdateErrorJson(refreshed) ==
    /\ error_json.st = "valid"
    /\ IF error_json.flag \/ modclock < error_json.end
       THEN /\ refreshed = state
            /\ UNCHANGED <<error_json, conv, state, got>>
       ELSE /\ ~GetFilesRaises(refreshed, source_dirs, error_json.start, error_json.end)
            /\ state' = refreshed
            /\ got' = [dir |-> source_dirs, start_time |-> error_json.start,
                       end_time |-> error_json.end, get_dir |-> TRUE,
                       ret |-> get_files(refreshed, source_dirs, error_json.start,
                                         error_json.end, TRUE),
                       raised |-> FALSE]
            /\ error_json' = [error_json EXCEPT
                                !.flag = TRUE,
                                !.gathered = Gathered(refreshed, error_json, source_dirs)]
            /\ conv' = [conv EXCEPT !.materializations = @ + 1, !.at = modclock]
    /\ UNCHANGED modclock
    /\ UNCHANGED offMod

\* handle_error_json: on a request with flag true and no uploaded key, saves
\* the RecordCache and then rewrites the request with uploaded true.
\* written: the rewrite happens (otherwise it raises, or the process stops
\* before it).
handle_error_json(written) ==
    /\ error_json.st = "valid"
    /\ IF error_json.flag /\ ~error_json.uploaded
       THEN /\ conv.conversions < MaxConversions
            /\ conv' = [conv EXCEPT !.conversions = @ + 1]
            /\ error_json' = [error_json EXCEPT !.uploaded = written]
       ELSE /\ written
            /\ UNCHANGED <<error_json, conv>>
    /\ UNCHANGED <<modclock, state, got>>
    /\ UNCHANGED offMod

FindFiles == \E refreshed \in update_dirs : FindFilesAndUpdateErrorJson(refreshed)

ConvertRequest == \E written \in BOOLEAN : handle_error_json(written)

ModTick ==
    /\ modclock <= MaxTime
    /\ modclock' = modclock + 1
    /\ UNCHANGED <<error_json, conv, state, got>>
    /\ UNCHANGED offMod

InitMod ==
    /\ CollectorAtRest
    /\ AuthAtRest
    /\ UploaderAtRest /\ ConfigAtRest /\ CodesAtRest /\ IndexAtRest
    /\ ModelsAtRest /\ ModAtRest /\ ExtrasAtRest

NextMod == DumpUploadJson \/ FindFiles \/ ConvertRequest \/ ModTick

SpecMod == InitMod /\ [][NextMod]_vars

\* ------------------------------------ properties of upload requests
\* C29: while the clock is before cut.end the request is as it was written,
\* with flag false, and no RecordCache was made of it; it is materialized
\* once, at a time not before cut.end; uploaded is written only on a
\* materialized request; and it is converted into a RecordCache once.
C29_ForwardOnce ==
    error_json.st = "valid" =>
        /\ modclock < error_json.end =>
              /\ ~error_json.flag /\ ~error_json.uploaded
              /\ error_json.gathered = {}
              /\ conv.conversions = 0
        /\ conv.materializations = IF error_json.flag THEN 1 ELSE 0
        /\ conv.at # None => conv.at >= error_json.end
        /\ error_json.uploaded => error_json.flag
        /\ conv.conversions > 0 => error_json.flag
        /\ conv.conversions <= 1

\* The same without its last conjunct.
C29_ForwardOnly ==
    error_json.st = "valid" =>
        /\ modclock < error_json.end =>
              /\ ~error_json.flag /\ ~error_json.uploaded
              /\ error_json.gathered = {}
              /\ conv.conversions = 0
        /\ conv.materializations = IF error_json.flag THEN 1 ELSE 0
        /\ conv.at # None => conv.at >= error_json.end
        /\ error_json.uploaded => error_json.flag
        /\ conv.conversions > 0 => error_json.flag

\* A materialized request was converted twice: the first conversion did not
\* get to mark it.
C29_Witness ==
    /\ error_json.flag /\ error_json.uploaded
    /\ conv.materializations = 1
    /\ conv.conversions = 2

\* C30: the gathered set of a materialized request holds the index entries
\* that lie directly in a watched directory, are not unsupported and overlap
\* [cut.start, cut.end] (files and bag directories alike), the paths of
\* cut.extraFiles that exist, and nothing else.
C30_GatheredExact ==
    error_json.flag =>
        error_json.gathered =
            {p \in Paths :
                /\ state[p].st = "entry"
                /\ Parent(p) \in WatchedDirs
                /\ ~state[p].unsupported
                /\ state[p].start_time <= error_json.end
                /\ state[p].end_time >= error_json.start}
            \cup {f \in error_json.extraFiles : Exists(f)}

\* The index holds a file and a bag directory of the watched directory that
\* overlap the cut; the gathered set holds the extra file only.
C30_Witness ==
    /\ error_json.flag
    /\ error_json.extraFiles = {ExtraFile, MissingFile}
    /\ error_json.gathered = {ExtraFile}
    /\ \A p \in {1, 2} :
          /\ state[p].st = "entry" /\ ~state[p].unsupported
          /\ Overlaps(state[p], error_json.start, error_json.end)

\* ==================== Part IX: the keys of units of work
MaxMs == 2               \* the clock runs over 0..MaxMs milliseconds

\* random.randint(1, 1000)
Offsets == {1, 2, 1000}

\* The last segment of a task's name: distinct tasks have distinct names.
TaskId(u) == "task" \o ToString(u)

\* A record dir.  key: its name; file_infos: the unit whose files it lists;
\* name: record.name is set; uploaded; saved_by: the units whose conversion
\* saved it.
RecDir(k) ==
    [key |-> k, file_infos |-> 0, name |-> FALSE, uploaded |-> FALSE,
     saved_by |-> {}]

\* RecordCache(...).load_state(): the persisted state, if there is one,
\* replaces every field of the new object.
load_state(k) ==
    IF \E r \in recdirs : r.key = k
    THEN CHOOSE r \in recdirs : r.key = k
    ELSE RecDir(k)

\* rc.save_state() writes base_dir_path / .cos / state.json.
save_state(rc) == {r \in recdirs : r.key # rc.key} \cup {rc}

\* __dump_upload_json writes a request; the platform lists an upload task.
NewUnit ==
    \E u \in Units, kind \in {"request", "task"} :
        /\ unit[u].kind = "none"
        /\ unit' = [unit EXCEPT ![u] = [NoUnit EXCEPT !.kind = kind]]
        /\ UNCHANGED <<recdirs, msclock>>

\* __find_files_and_update_error_json: startTime of a request.
SetStartTime ==
    \E u \in Units, offset \in Offsets :
        /\ unit[u].kind = "request"
        /\ unit[u].startTime = None
        /\ unit' = [unit EXCEPT ![u].startTime = msclock + offset]
        /\ UNCHANGED <<recdirs, msclock>>

\* handle_error_json on a request with flag true that is not yet uploaded.
ConvertUnit ==
    \E u \in Units :
        /\ unit[u].kind = "request"
        /\ unit[u].startTime # None
        /\ unit[u].key = NoText
        /\ LET k == key([NoRecordCache EXCEPT !.timestamp = unit[u].startTime])
               rc == load_state(k)
           IN  /\ recdirs' = save_state([rc EXCEPT !.file_infos = u,
                                                   !.name = FALSE,
                                                   !.saved_by = @ \cup {u}])
               /\ unit' = [unit EXCEPT ![u].key = k]
        /\ UNCHANGED msclock

\* _handle_upload_task on a task with files.
HandleTask ==
    \E u \in Units :
        /\ unit[u].kind = "task"
        /\ unit[u].key = NoText
        /\ LET k == key([NoRecordCache EXCEPT !.event_code = TaskId(u),
                                              !.timestamp = msclock])
               rc == load_state(k)
           IN  /\ recdirs' = save_state([rc EXCEPT !.file_infos = u,
                                                   !.saved_by = @ \cup {u}])
               /\ unit' = [unit EXCEPT ![u].startTime = msclock, ![u].key = k]
        /\ UNCHANGED msclock

\* handle_record gets a record dir to S3: record.name set, uploaded.
RecordDone ==
    \E r \in recdirs :
        /\ ~r.uploaded
        /\ recdirs' = save_state([r EXCEPT !.name = TRUE, !.uploaded = TRUE])
        /\ UNCHANGED <<unit, msclock>>

Millisecond ==
    /\ msclock < MaxMs
    /\ msclock' = msclock + 1
    /\ UNCHANGED <<unit, recdirs>>

offKeys ==
    <<collectorVars, authVars, uploaderVars, configVars, codeVars, indexVars,
      modelVars, modVars, limitVars, diagVars, triggerVars, meterVars>>

InitKeys ==
    /\ CollectorAtRest
    /\ AuthAtRest
    /\ UploaderAtRest /\ ConfigAtRest /\ CodesAtRest /\ IndexAtRest
    /\ ModelsAtRest /\ ModAtRest /\ ExtrasAtRest

NextKeys ==
    \/ (NewUnit /\ UNCHANGED offKeys)
    \/ (SetStartTime /\ UNCHANGED offKeys)
    \/ (ConvertUnit /\ UNCHANGED offKeys)
    \/ (HandleTask /\ UNCHANGED offKeys)
    \/ (RecordDone /\ UNCHANGED offKeys)
    \/ (Millisecond /\ UNCHANGED offKeys)

SpecKeys == InitKeys /\ [][NextKeys]_vars

\* C31: two different units of work never have the same RecordCache key,
\* and no record dir was saved by the conversions of two different units.
C31_NoSharedRecordCache ==
    /\ \A u, v \in Units :
          u # v /\ unit[u].key # NoText /\ unit[v].key # NoText
              => unit[u].key # unit[v].key
    /\ \A r \in recdirs : Cardinality(r.saved_by) <= 1

\* Two requests were given the same key: the record dir of the first, which
\* was uploaded, now lists the files of the second and is still marked
\* uploaded.
C31_Witness ==
    \E u, v \in Units, r \in recdirs :
        /\ u # v
        /\ unit[u].kind = "request" /\ unit[v].kind = "request"
        /\ unit[u].key = r.key /\ unit[v].key = r.key
        /\ r.saved_by = {u, v}
        /\ r.file_infos = v
        /\ r.uploaded

\* ======================== Part X: the limiter in handle_record
\* The event code of the record caches of this part.
LimitedCode == "200"

\* The calls to the platform and to the object store that may fail.
RemoteOps == PlatformOps \cup {"upload_thumbnail"}

\* handle_record on record dir k, with the limiter deciding: is_over_limit
\* is asked only for a record cache with no record name and an event code,
\* and hit follows save_state in the same call.  fail_at: the remote call
\* that raises (0: none).
HandleRecordLimited(k, w, fail_at) ==
    LET rc == disk[k]
        asked == ~rc.skipped /\ ~rc.name /\ rc.code
        r1 == create_or_reset_state(mgr, codeFile, clock)
        over == asked /\ is_over_limit(r1.file, LimitedCode)
        env == EnvOf([w EXCEPT !.over = over], fail_at, "error")
        plan == HandleRecord(rc, env, conf, now)
        r == Exec(rc, plan, env)
        rm == Seen(remote[k], r, Branch(rc, env))
        counted == "hit" \in Range(r.done)
        r2 == create_or_reset_state(r1.mgr, r1.file, clock)
        reset == asked /\ (r1.reset \/ (counted /\ r2.reset))
        since == IF reset THEN [c \in Codes |-> 0] ELSE made
    IN  /\ rc.st = "valid" /\ rc.code
        /\ mgr.enabled
        /\ EnvFits(rc, plan, env)
        /\ fail_at > 0 => plan[fail_at] \in RemoteOps
        /\ rm.created <= MaxCreated
        /\ disk' = [disk EXCEPT ![k] = r.dsk]
        /\ remote' = [remote EXCEPT ![k] = rm]
        /\ mgr' = IF ~asked THEN mgr ELSE IF counted THEN r2.mgr ELSE r1.mgr
        /\ codeFile' =
              IF ~asked THEN codeFile
              ELSE IF counted
                   THEN [r2.file EXCEPT !.counters = Counted(@, LimitedCode)]
                   ELSE r1.file
        /\ hits' = IF counted
                   THEN [(IF reset THEN [c \in Codes |-> 0] ELSE hits)
                            EXCEPT ![LimitedCode] = @ + 1]
                   ELSE IF reset THEN [c \in Codes |-> 0] ELSE hits
        /\ call' = IF asked
                   THEN [op |-> IF counted THEN "hit" ELSE "is_over_limit",
                         code |-> LimitedCode, ret |-> over, reset |-> reset]
                   ELSE call
        /\ made' = [since EXCEPT
                       ![LimitedCode] = @ + Count(r.done, "create_record")]
        /\ UNCHANGED <<last, sweep, conf, now, req, clock>>
        /\ UNCHANGED <<authVars, uploaderVars, configVars, indexVars, modelVars,
                       modVars, keyVars, diagVars, triggerVars, meterVars>>

CallHandleRecordLimited ==
    \E k \in Keys :
        \E w \in [over : {FALSE}, cos : SUBSET (1..disk[k].files),
                  flagFail : BOOLEAN] :
            \E n \in 0..(2 * MaxMoments + 8) : HandleRecordLimited(k, w, n)

\* Record caches that carry the code and are still to be handled.
FreshLimited ==
    {RecordCache(TRUE, FALSE, FALSE, m, 0, 0) : m \in 0..MaxMoments}

\* The state file holds h hits of the code, made for h records.
InitLimit ==
    /\ disk \in [Keys -> FreshLimited]
    /\ remote = [k \in Keys |-> NoRemote]
    /\ last = NoLast
    /\ sweep = Idle
    /\ conf = [delete_after_upload |-> FALSE, delete_after_interval_in_hours |-> -1]
    /\ now = 1
    /\ req = [k \in Keys |-> "none"]
    /\ AuthAtRest
    /\ UploaderAtRest /\ ConfigAtRest /\ IndexAtRest
    /\ ModelsAtRest /\ ModAtRest /\ KeysAtRest /\ DiagAtRest
    /\ TriggerAtRest /\ MeterAtRest
    /\ \E h \in 0..Whitelist[LimitedCode] :
          /\ codeFile = [exists |-> TRUE, last_reset_timestamp |-> ResetInterval,
                         counters |-> [c \in Codes |->
                                          IF c = LimitedCode THEN h ELSE 0]]
          /\ hits = [c \in Codes |-> IF c = LimitedCode THEN h ELSE 0]
          /\ made = [c \in Codes |-> IF c = LimitedCode THEN h ELSE 0]
    /\ mgr = NewManager
    /\ clock = ResetInterval
    /\ call = NoCall

\* The clock runs until a reset is due.
LimitTick == clock < 2 * ResetInterval /\ ClockTick

NextLimit == CallHandleRecordLimited \/ Restart \/ LimitTick

SpecLimit == InitLimit /\ [][NextLimit]_vars

\* C32: with the limiter enabled, the remote records created for a
\* whitelisted code with a limit L >= 0 since the limiter's state was last
\* reset are at most L.
C32_CreatedWithinLimit ==
    mgr.enabled =>
        \A c \in DOMAIN Whitelist :
            Whitelist[c] >= 0 => made[c] <= Whitelist[c]

\* Three records of a code with limit 2 since the last reset: two of them
\* for one record cache, whose first create call was followed by a failure.
C32_Witness ==
    /\ mgr.enabled
    /\ Whitelist[LimitedCode] = 2
    /\ made[LimitedCode] = 3
    /\ \E k \in Keys : remote[k].created = 2 /\ disk[k].name

\* ============== Part XI: the sweep of the index and the diagnosis
\* entry.stat().st_size of a bag directory: the size of the directory
\* itself, which is not the size of the files in it.
DirSize == MaxFileSize + 1

is_dir(p) == p = "bag"

st_size(p) == IF is_dir(p) THEN DirSize ELSE fsys[p].size

\* handler.get_file_size(entry)
get_file_size(p) == fsys[p].size

\* update_dir skips a child whose entry has the size get_file_size gives.
UpToDate(p) == findex[p].st = "entry" /\ findex[p].size = get_file_size(p)

\* One turn of update_dir's loop on an existing child: the entry it leaves.
update_path_state(p) ==
    IF UpToDate(p) THEN findex[p]
    ELSE CASE fsys[p].reads = "ok" ->
                [st |-> "entry", size |-> get_file_size(p), unsupported |-> FALSE,
                 processed |-> FALSE, times |-> TRUE]
           [] fsys[p].reads = "nosummary" -> findex[p]
           [] OTHER ->
                [st |-> "entry", size |-> st_size(p), unsupported |-> TRUE,
                 processed |-> FALSE, times |-> FALSE]

\* update_dir: the loop over the children, __update_deleted_file_state,
\* save_state.
UpdateDir ==
    LET new == [p \in Children |->
                   IF fsys[p].exists THEN update_path_state(p) ELSE NoEntry]
    IN  /\ ~fresh
        /\ findex' = new
        /\ fsaved' = new
        /\ swept' = [p \in Children |->
                        IF ~fsys[p].exists THEN NoSwept
                        ELSE IF UpToDate(p) THEN swept[p]
                        ELSE [raised_size |-> IF fsys[p].reads = "raises"
                                              THEN get_file_size(p) ELSE None,
                              again |-> swept[p].raised_size = get_file_size(p)]]
        /\ todo' = {p \in Children : fsys[p].exists}
        /\ fresh' = TRUE
        /\ UNCHANGED <<fsys, runs>>

\* static_file_diagnosis on a child of the watched directory.
StaticFileDiagnosis ==
    \E p \in todo :
        LET file_state == findex[p]
            skip == \/ ~fsys[p].exists
                    \/ file_state.st = "absent"
                    \/ file_state.processed /\ get_file_size(p) = file_state.size
                    \/ file_state.unsupported
            new == [findex EXCEPT ![p].processed = TRUE]
        IN  /\ todo' = todo \ {p}
            /\ IF skip
               THEN UNCHANGED <<findex, fsaved, runs>>
               ELSE /\ runs[p][get_file_size(p)] < MaxRuns
                    /\ findex' = new
                    /\ fsaved' = new
                    /\ runs' = [runs EXCEPT ![p][get_file_size(p)] = @ + 1]
            /\ UNCHANGED <<fsys, swept, fresh>>

\* Something outside the agent writes a child, with another size.
WriteChild ==
    \E p \in Children, n \in Sizes, reads \in {"ok", "raises", "nosummary"} :
        /\ ~fsys[p].exists \/ fsys[p].size # n
        /\ Cardinality({q \in Children : fsys[q].exists} \cup {p}) <= MaxChildren
        /\ reads = "nosummary" => ~is_dir(p)
        /\ fsys' = [fsys EXCEPT ![p] = [exists |-> TRUE, size |-> n, reads |-> reads]]
        /\ fresh' = FALSE
        /\ UNCHANGED <<findex, fsaved, runs, swept, todo>>

RemoveChild ==
    \E p \in Children :
        /\ fsys[p].exists
        /\ fsys' = [fsys EXCEPT ![p] = NoFile]
        /\ fresh' = FALSE
        /\ UNCHANGED <<findex, fsaved, runs, swept, todo>>

\* The next run of the mod.
NextRun ==
    /\ fresh
    /\ fresh' = FALSE
    /\ UNCHANGED <<fsys, findex, fsaved, runs, swept, todo>>

offDiag ==
    <<collectorVars, authVars, uploaderVars, configVars, codeVars, indexVars,
      modelVars, modVars, keyVars, limitVars, triggerVars, meterVars>>

InitDiag ==
    /\ CollectorAtRest
    /\ AuthAtRest
    /\ UploaderAtRest /\ ConfigAtRest /\ CodesAtRest /\ IndexAtRest
    /\ ModelsAtRest /\ ModAtRest /\ ExtrasAtRest

NextDiag ==
    \/ (UpdateDir /\ UNCHANGED offDiag)
    \/ (StaticFileDiagnosis /\ UNCHANGED offDiag)
    \/ (WriteChild /\ UNCHANGED offDiag)
    \/ (RemoveChild /\ UNCHANGED offDiag)
    \/ (NextRun /\ UNCHANGED offDiag)

SpecDiag == InitDiag /\ [][NextDiag]_vars

\* C35: the rule pipeline runs at most once on a child at a size; an entry
\* with processed set was persisted; and processed is set only on an entry
\* that is not unsupported.
C35_OncePerSize ==
    /\ \A p \in Children, n \in Sizes : runs[p][n] <= 1
    /\ \A p \in Children : findex[p].processed => fsaved[p].processed
    /\ \A p \in Children : findex[p].processed => ~findex[p].unsupported

\* The pipeline ran twice on the mcap file at size 2: the file was indexed
\* at size 1 and grew into one without summary, so its entry still has size
\* 1, with processed set.
C35_Witness ==
    /\ runs["a.mcap"][2] = 2
    /\ fsys["a.mcap"] = [exists |-> TRUE, size |-> 2, reads |-> "nosummary"]
    /\ findex["a.mcap"].size = 1
    /\ findex["a.mcap"].processed

\* C36: when update_dir has returned, the index and the persisted index
\* hold no entry for a child that does not exist; a child whose extraction
\* raised at size s has the entry {size: s, unsupported: true}; and no
\* sweep ran the extraction again on a child at the size at which it had
\* raised.
C36_SweptIndex ==
    fresh =>
        /\ \A p \in Children :
              ~fsys[p].exists => findex[p] = NoEntry /\ fsaved[p] = NoEntry
        /\ \A p \in Children :
              swept[p].raised_size # None =>
                 /\ findex[p].st = "entry"
                 /\ findex[p].size = swept[p].raised_size
                 /\ findex[p].unsupported
                 /\ fsaved[p] = findex[p]
        /\ \A p \in Children : ~swept[p].again

\* A sweep ran the extraction again on the bag directory, at the size at
\* which it had raised before: the entry holds the size of the directory
\* itself.
C36_Witness ==
    /\ fresh
    /\ swept["bag"] = [raised_size |-> 1, again |-> TRUE]
    /\ fsys["bag"] = [exists |-> TRUE, size |-> 1, reads |-> "raises"]
    /\ findex["bag"].unsupported /\ findex["bag"].size = DirSize

\* ====================================================================
\* Part XII - the upload limit of a diagnosis rule (should_trigger_action)
\* ====================================================================

MaxTimes == 2            \* times of an upload limit 0..MaxTimes
MaxCount == 2            \* counts the server answers 0..MaxCount

\* hit["uploadLimit"] as the limits per scope; None: upload_limit.get(scope)
\* is falsy.
Limits == [Scopes -> {None} \cup 0..MaxTimes]

\* The answers of count_diagnosis_rules_hit per scope; None: it raises.
Counts == [Scopes -> {None} \cup 0..MaxCount]

ReachedBeyond(count, times) == count > times

\* device_count >= upload_limit["device"]["times"]
Reached(count, times) == count >= times

\* One block of should_trigger_action: "skip" (the scope has no limit),
\* "refuse" (the query raised or the count reached the limit), "pass".
CheckScope(sc, limit, counts) ==
    IF limit[sc] = None THEN "skip"
    ELSE IF counts[sc] = None THEN "refuse"
    ELSE IF Reached(counts[sc], limit[sc]) THEN "refuse"
    ELSE "pass"

\* should_trigger_action(proj_name, rule_spec, hit): the value returned and
\* the scopes count_diagnosis_rules_hit was called for.
should_trigger_action(set, limit, counts) ==
    IF ~set THEN [ret |-> TRUE, queried |-> {}]
    ELSE LET dev == CheckScope("device", limit, counts)
             glo == CheckScope("global", limit, counts)
             qd  == IF dev = "skip" THEN {} ELSE {"device"}
         IN  IF dev = "refuse" THEN [ret |-> FALSE, queried |-> qd]
             ELSE [ret |-> glo # "refuse",
                   queried |-> qd \cup (IF glo = "skip" THEN {} ELSE {"global"})]

\* trigger_cb asks should_trigger_action for a hit.  A hit without an
\* uploadLimit has no limits.
CallShouldTrigger ==
    \E set \in BOOLEAN, limit \in Limits, counts \in Counts :
        /\ ~set => limit = [sc \in Scopes |-> None]
        /\ LET r == should_trigger_action(set, limit, counts)
           IN  trig' = [op |-> "call", set |-> set, limit |-> limit,
                        counts |-> counts, queried |-> r.queried,
                        ret |-> r.ret]

offTrigger ==
    <<collectorVars, authVars, uploaderVars, configVars, codeVars, indexVars,
      modelVars, modVars, keyVars, limitVars, diagVars, meterVars>>

InitTrigger ==
    /\ CollectorAtRest
    /\ AuthAtRest
    /\ UploaderAtRest /\ ConfigAtRest /\ CodesAtRest /\ IndexAtRest
    /\ ModelsAtRest /\ ModAtRest /\ ExtrasAtRest

NextTrigger == CallShouldTrigger /\ UNCHANGED offTrigger

SpecTrigger == InitTrigger /\ [][NextTrigger]_vars

\* The scopes of the hit that have a limit.
Configured(t) == {sc \in Scopes : t.set /\ t.limit[sc] # None}

\* C37: should_trigger_action returns true exactly when the hit has no
\* uploadLimit, or the count query of every configured limit (device,
\* global) succeeded with a count strictly below the limit's times; it
\* queries configured scopes only, and it returns false when a count has
\* reached its limit or a query it made failed.
C37_TriggerWithinLimits ==
    trig.op = "call" =>
        /\ trig.ret <=>
              \/ ~trig.set
              \/ \A sc \in Configured(trig) :
                    /\ sc \in trig.queried
                    /\ trig.counts[sc] # None
                    /\ trig.counts[sc] < trig.limit[sc]
        /\ trig.queried \subseteq Configured(trig)
        /\ (\E sc \in trig.queried :
               \/ trig.counts[sc] = None
               \/ trig.counts[sc] >= trig.limit[sc]) => ~trig.ret

\* Both limits are configured, the device count is below its limit and the
\* global count has just reached its own: refused, after both queries.
C37_Witness ==
    /\ trig.op = "call" /\ trig.set
    /\ trig.limit = [sc \in Scopes |-> IF sc = "device" THEN 2 ELSE 1]
    /\ trig.counts = [sc \in Scopes |-> 1]
    /\ trig.queried = Scopes
    /\ ~trig.ret

\* ====================================================================
\* Part XIII - the network-usage meter and the heartbeat
\* ====================================================================

MaxIncrement == 1        \* bytes of one request or response 1..MaxIncrement
MaxFed == 4              \* the sum of all increments
MaxBeats == 2            \* ends of Collector.run

Fields == {"upload_bytes", "download_bytes"}
Bytes == 1..MaxIncrement

\* A request has a body; a response may be empty.
Traffic == [upload_bytes : Bytes, download_bytes : {0} \cup Bytes]

Total(u) == u.upload_bytes + u.download_bytes

Plus(u, v) ==
    [upload_bytes |-> u.upload_bytes + v.upload_bytes,
     download_bytes |-> u.download_bytes + v.download_bytes]

get_network_upload_usage(m) == m.upload_bytes

get_network_download_usage(m) == m.download_bytes

reset_upload_only(m) == [m EXCEPT !.upload_bytes = 0]

reset_network_usage(m) == [m EXCEPT !.download_bytes = 0, !.upload_bytes = 0]

\* response_hook, NetworkUsageInterceptor: one request and its response
\* are added to the two counters.
Metered(m, t) ==
    [upload_bytes |-> increase_upload_bytes(m.upload_bytes, t.upload_bytes),
     download_bytes |-> m.download_bytes + t.download_bytes]

\* A request of the sweep thread, outside the heartbeat.
Feed ==
    \E t \in Traffic :
        /\ beat.pc = "idle" /\ beat.n < MaxBeats
        /\ Total(sums.fed) + Total(t) <= MaxFed
        /\ meter' = Metered(meter, t)
        /\ sums' = [sums EXCEPT !.fed = Plus(@, t)]
        /\ UNCHANGED <<beat, worker>>

\* The end of Collector.run, no other thread running.  how: "unauth"
\* (handle_record raised Unauthorized: run is left), "nodevice" (no
\* registered device: no heartbeat), "ok" (send_heartbeat returned),
\* "failed" (send_heartbeat raised); t: the traffic of the heartbeat
\* request, metered while send_heartbeat runs.
SendHeartbeat ==
    \E how \in {"unauth", "nodevice", "ok", "failed"}, t \in Traffic :
        /\ beat.pc = "idle" /\ beat.n < MaxBeats
        /\ worker.pc = "idle"
        /\ how \in {"ok", "failed"} => Total(sums.fed) + Total(t) <= MaxFed
        /\ LET snapshot == [upload_bytes |-> get_network_upload_usage(meter),
                            download_bytes |-> get_network_download_usage(meter)]
               during == IF how \in {"ok", "failed"} THEN Metered(meter, t)
                         ELSE meter
               after == IF how = "ok" THEN reset_network_usage(during)
                        ELSE during
           IN  /\ meter' = after
               /\ beat' = [pc |-> "idle", outcome |-> how,
                           sent |-> IF how \in {"ok", "failed"} THEN snapshot
                                    ELSE NoUsage,
                           pre |-> meter, post |-> after, n |-> beat.n + 1]
               /\ sums' = [fed |-> IF how \in {"ok", "failed"}
                                   THEN Plus(sums.fed, t) ELSE sums.fed,
                           reported |-> IF how = "ok"
                                        THEN Plus(sums.reported, snapshot)
                                        ELSE sums.reported]
        /\ UNCHANGED worker

offMeter ==
    <<collectorVars, authVars, uploaderVars, configVars, codeVars, indexVars,
      modelVars, modVars, keyVars, limitVars, diagVars, triggerVars>>

InitMeter ==
    /\ CollectorAtRest
    /\ AuthAtRest
    /\ UploaderAtRest /\ ConfigAtRest /\ CodesAtRest /\ IndexAtRest
    /\ ModelsAtRest /\ ModAtRest /\ ExtrasAtRest

NextMeter ==
    \/ (Feed /\ UNCHANGED offMeter)
    \/ (SendHeartbeat /\ UNCHANGED offMeter)

SpecMeter == InitMeter /\ [][NextMeter]_vars

WorkerLoad ==
    \E f \in Fields, b \in Bytes :
        /\ worker.pc = "idle"
        /\ beat.n < MaxBeats
        /\ Total(sums.fed) + b <= MaxFed
        /\ worker' = [pc |-> "loaded", field |-> f, tmp |-> meter[f], b |-> b]
        /\ UNCHANGED <<meter, beat, sums>>

\* ... and the sum is stored.
WorkerStore ==
    /\ worker.pc = "loaded"
    /\ meter' = [meter EXCEPT ![worker.field] = worker.tmp + worker.b]
    /\ sums' = [sums EXCEPT !.fed[worker.field] = @ + worker.b]
    /\ worker' = NoWorker
    /\ UNCHANGED beat

\* The arguments of send_heartbeat are evaluated ...
BeatRead ==
    /\ beat.pc = "idle" /\ beat.n < MaxBeats
    /\ beat' = [beat EXCEPT
                   !.pc = "read", !.pre = meter,
                   !.sent = [upload_bytes |-> get_network_upload_usage(meter),
                             download_bytes |-> get_network_download_usage(meter)]]
    /\ UNCHANGED <<meter, worker, sums>>

\* ... send_heartbeat runs, its own request is metered ...
BeatSend ==
    \E how \in {"ok", "failed"}, t \in Traffic :
        /\ beat.pc = "read"
        /\ Total(sums.fed) + Total(t) <= MaxFed
        /\ meter' = Metered(meter, t)
        /\ sums' = [sums EXCEPT !.fed = Plus(@, t)]
        /\ beat' = IF how = "ok" THEN [beat EXCEPT !.pc = "sent"]
                   ELSE [beat EXCEPT !.pc = "idle", !.outcome = "failed",
                                     !.post = meter', !.n = @ + 1]
        /\ UNCHANGED worker

\* ... and reset_network_usage() is called.
BeatReset ==
    /\ beat.pc = "sent"
    /\ meter' = reset_network_usage(meter)
    /\ sums' = [sums EXCEPT !.reported = Plus(@, beat.sent)]
    /\ beat' = [beat EXCEPT !.pc = "idle", !.outcome = "ok", !.post = meter',
                            !.n = @ + 1]
    /\ UNCHANGED worker

NextMeterThreads ==
    \/ (Feed /\ UNCHANGED offMeter)
    \/ (WorkerLoad /\ UNCHANGED offMeter)
    \/ (WorkerStore /\ UNCHANGED offMeter)
    \/ (BeatRead /\ UNCHANGED offMeter)
    \/ (BeatSend /\ UNCHANGED offMeter)
    \/ (BeatReset /\ UNCHANGED offMeter)

SpecMeterThreads == InitMeter /\ [][NextMeterThreads]_vars

\* C39: whatever the threads do, what the heartbeats reported plus what
\* the meter holds is the sum of all increments, for either counter.
C39_NoIncrementLost ==
    \A f \in Fields : sums.reported[f] + meter[f] = sums.fed[f]

\* send_heartbeat has returned and reset_network_usage() comes next: the
\* meter holds more download bytes than the heartbeat carried and the
\* heartbeat's own response can account for, because a worker stored an
\* increment after the counters were read.
C39_Witness ==
    /\ beat.pc = "sent" /\ worker.pc = "idle"
    /\ meter.download_bytes > beat.sent.download_bytes + MaxIncrement
    /\ sums.reported.download_bytes + meter.download_bytes
          = sums.fed.download_bytes

\* ====================================================================
\* Part XIV - what the uploader feeds the meter
\* ====================================================================

\* A step of upload() that sent a part and appended it to parts.
PartSent ==
    /\ up.pc = "loop" /\ up'.pc = "loop"
    /\ Len(up'.parts) = Len(up.parts) + 1

\* C40: a step of upload() that sends a part feeds the meter's upload_bytes
\* exactly the length of that part, and no other step of upload() feeds it
\* for a part; so a file of T bytes feeds it T bytes.
C40_FedPartLength ==
    [][ IF PartSent
        THEN fed' = fed + up'.parts[Len(up'.parts)].ETag.len
        ELSE fed' = fed ]_vars

\* A file of two parts of two bytes was uploaded in one call, and the meter
\* was fed six bytes for its parts: two with the first, four with the
\* second.
C40_Witness ==
    /\ file = [exists |-> TRUE, size |-> 2 * PartSize]
    /\ interruptions = 0
    /\ s3.completed # <<>> /\ Len(s3.completed) = 2
    /\ up.ret = "ok"
    /\ fed = PartSize + 2 * PartSize

====
